---- MODULE Spec2Model ----
(***************************************************************************)
(* Model of the @carbonteq/fp behaviour documented by the agent-skills     *)
(* repository: the Option / Result containers, their aggregation           *)
(* combinators, and the generator sequencing engines (Option.gen,          *)
(* Result.gen, Flow.gen and their adapter variants), together with the     *)
(* example programs of the repository that use them.                       *)
(***************************************************************************)
EXTENDS Integers, Sequences, FiniteSets, TLC

(***************************************************************************)
(* Bounds of the model.                                                    *)
(***************************************************************************)
MaxSteps == 3

MaxArgs == 3

MaxChain == 2

MaxNested == 2

MaxRetries == 4

MaxCalls == 2

(***************************************************************************)
(* JavaScript values carry their runtime type, so that a bare error and a  *)
(* one-element array of errors, or a value and a container holding it,     *)
(* are different values.                                                   *)
(***************************************************************************)
Num(n) == <<"number", n>>

Str(s) == <<"string", s>>

Arr(xs) == <<"array", xs>>

Obj(c) == <<"object", c>>

ErrorObj(name, message) == <<"error", name, message>>

IsArr(v) == v[1] = "array"

(***************************************************************************)
(* Containers.                                                             *)
(***************************************************************************)
Some(v) == [tag |-> "Some", value |-> v]

None == [tag |-> "None"]

Ok(v) == [tag |-> "Ok", value |-> v]

Err(e) == [tag |-> "Err", error |-> e]

isSome(c) == c.tag = "Some"

isNone(c) == c.tag = "None"

isOk(c) == c.tag = "Ok"

isErr(c) == c.tag = "Err"

UnwrappedNone == ErrorObj("UnwrappedNone", "")

ValidationError(message) == ErrorObj("ValidationError", message)

\* A FlowError instance is not a container: it is yielded as itself.
FlowError(e) == [tag |-> "FlowError", error |-> e]

isFlowError(c) == c.tag = "FlowError"

(***************************************************************************)
(* Arithmetic of the host language: the remainder takes the sign of the    *)
(* dividend (-5 % 2 is -1).                                                *)
(***************************************************************************)
JsRem(a, b) == IF a >= 0 THEN a % b ELSE 0 - ((0 - a) % b)

\* Math.pow(b, e) for a natural exponent.
RECURSIVE Pow(_, _)
Pow(b, e) == IF e = 0 THEN 1 ELSE b * Pow(b, e - 1)

RECURSIVE SumNums(_)
SumNums(vs) == IF vs = <<>> THEN 0 ELSE vs[1][2] + SumNums(Tail(vs))

Last(s) == s[Len(s)]

RECURSIVE SeqsUpTo(_, _)
SeqsUpTo(S, n) ==
  IF n = 0 THEN {<<>>}
  ELSE LET shorter == SeqsUpTo(S, n - 1)
       IN shorter \cup {Append(s, x) : s \in {t \in shorter : Len(t) = n - 1}, x \in S}

(***************************************************************************)
(* Generator bodies.  A body is a list of statements followed by a return  *)
(* expression.  A statement is `yield* c` (`yield* $(c)` in the adapter    *)
(* variants), `yield* await f()` (`yield* $(await f())`) where the pending *)
(* computation f() resolves to the container c, or                         *)
(* `if (cond) yield* new SomeFlowError(...)`.                              *)
(***************************************************************************)
Yield(c) == [op |-> "yield", c |-> c]

Await(c) == [op |-> "await", c |-> c]

RaiseIf(cond, e) == [op |-> "raiseIf", cond |-> cond, error |-> e]

\* input objects of the multi-step validation body: { age, email }
Input(age, email) == Obj([age |-> age, email |-> email])

includes(s, ch) == \E i \in 1..Len(s) : s[i] = ch

\* if (v): whether v is truthy.
Truthy(v) ==
  CASE v[1] = "number"  -> v[2] # 0
    [] v[1] = "string"  -> Len(v) > 2 \/ v[2] # ""
    [] v[1] = "boolean" -> v[2]
    [] v[1] \in {"undefined", "null", "NaN"} -> FALSE
    [] OTHER -> TRUE

\* The conditions guarding a raise, evaluated on the values unwrapped so far.
Test(cond, env) ==
  CASE cond = "value < 0"                 -> Last(env)[2] < 0
    [] cond = "input.age < 18"            -> env[1][2].age < 18
    [] cond = "input.email.includes('+')" -> includes(env[1][2].email, "+")
    [] cond = "existingUser"              -> Truthy(Last(env))

\* The return expressions of the bodies.
ReturnValue(expr, env) ==
  CASE expr = "a + b + c"         -> Num(SumNums(env))
    [] expr = "value * 2"         -> Num(Last(env)[2] * 2)
    [] expr = "input"             -> env[1]
    [] expr = "Result.Ok(cached)" -> Obj(Ok(Last(env)))
    [] expr = "inner"             -> env[1]
    [] expr = "{ email, age }"    -> Obj([email |-> env[2], age |-> env[3]])
    [] expr = "{ user, profile, settings }" ->
         Obj([user |-> env[1], profile |-> env[2], settings |-> env[3]])

(***************************************************************************)
(* The example bodies of the repository.                                   *)
(***************************************************************************)
Variants == {"gen", "genAdapter", "asyncGen", "asyncGenAdapter"}

IsAdapter(variant) == variant \in {"genAdapter", "asyncGenAdapter"}

IsAsync(variant) == variant \in {"asyncGen", "asyncGenAdapter"}

\* The statements the bodies are built from: those of the synchronous
\* variants yield containers at hand, those of the asynchronous variants
\* also await a computation before yielding its container.
Statements(engine, variant) ==
  CASE engine = "Option" ->
         IF IsAsync(variant)
           THEN {Yield(Some(Num(1))), Await(Some(Num(3))), Await(None)}
           ELSE {Yield(Some(Num(1))), Yield(Some(Num(3))), Yield(None)}
    [] engine = "Result" ->
         IF IsAsync(variant)
           THEN {Yield(Ok(Num(1))), Await(Ok(Num(2))), Await(Err(Str("a"))), Yield(Err(Str("b")))}
           ELSE {Yield(Ok(Num(1))), Yield(Ok(Num(2))), Yield(Err(Str("a"))), Yield(Err(Str("b")))}
    [] engine = "Flow" ->
         (IF IsAsync(variant)
            THEN {Yield(Some(Num(1))), Yield(Some(Num(-5))), Await(None), Await(Ok(Num(10))),
                  Await(Err(Str("something failed")))}
            ELSE {Yield(Some(Num(1))), Yield(Some(Num(0))), Yield(Some(Num(-5))), Yield(None),
                  Yield(Ok(Num(10))),
                  Yield(Err(Str("something failed")))})
           \cup {RaiseIf("value < 0", ValidationError("Value must be positive"))}

ReturnExprs == {"a + b + c", "value * 2", "Result.Ok(cached)"}

\* A body is well formed when every variable it reads has been bound by a
\* yield before it.
WellFormed(body, ret) ==
  /\ body # <<>> => body[1].op # "raiseIf"
  /\ body = <<>> => ret = "a + b + c"

Ages == {17, 18}

Emails == {<<"a", "@", "b">>, <<"a", "+", "c", "@", "b">>}

ParseError == ErrorObj("Error", "Invalid input")

parseInput == {Ok(Input(age, email)) : age \in Ages, email \in Emails} \cup {Err(ParseError)}

\* Flow.genAdapter body of "Multi-Step Validation with Errors".
multiStepValidation(parsed) ==
  << Yield(parsed),
     RaiseIf("input.age < 18", ValidationError("Must be 18 or older")),
     RaiseIf("input.email.includes('+')", ValidationError("Email aliases not allowed")) >>

\* Flow.gen body of withCustomError, for the yielded value v.
withCustomError(v) ==
  <<Yield(Some(Num(v))), RaiseIf("value < 0", ValidationError("Value must be positive"))>>

\* What getUser, getProfile and getSettings may resolve to.
UserDataOutcomes ==
  { <<u, p, t>> : u \in {Ok(Str("user")), Err(ErrorObj("Error", "no user"))},
                  p \in {Ok(Str("profile")), Err(ErrorObj("Error", "no profile"))},
                  t \in {Some(Str("settings")), None} }

\* Flow.asyncGenAdapter body of fetchCompleteUserData.
fetchCompleteUserData(o) == <<Await(o[1]), Await(o[2]), Await(o[3])>>

Gen(engine, variant, body, ret) ==
  [op |-> "gen", engine |-> engine, variant |-> variant, body |-> body, ret |-> ret]

GenBodies(engine, variant) ==
  {Gen(engine, variant, b, "a + b + c") : b \in SeqsUpTo(Statements(engine, variant), MaxSteps)}

GenScenarios ==
  {g \in UNION {GenBodies(e, v) : e \in {"Option", "Result", "Flow"}, v \in Variants} :
      WellFormed(g.body, g.ret)}
    \cup {g \in {Gen("Flow", "gen", b, r) :
                   b \in SeqsUpTo(Statements("Flow", "gen"), MaxSteps),
                   r \in ReturnExprs} : WellFormed(g.body, g.ret)}
    \cup {Gen("Flow", "genAdapter", multiStepValidation(p), "input") : p \in parseInput}
    \cup {Gen("Flow", "asyncGenAdapter", fetchCompleteUserData(o), "{ user, profile, settings }") :
             o \in UserDataOutcomes}

(***************************************************************************)
(* Result combinators.                                                     *)
(***************************************************************************)
NaN == <<"NaN", 0>>

Undefined == <<"undefined", 0>>

Null == <<"null", 0>>

\* Option.fromNullable(value)
fromNullable(v) == IF v[1] \in {"undefined", "null"} THEN None ELSE Some(v)

\* o.field: undefined when the object has no such property.
Prop(o, field) == IF field \in DOMAIN o[2] THEN o[2][field] ELSE Undefined

(***************************************************************************)
(* The validation workflow of the Flow examples: createUser(rawInput).     *)
(***************************************************************************)
\* parseInput(input) of the workflow: the input is cast, never checked.
parseCreateUserInput(input) == Ok(input)

\* /^[^\s@]+@[^\s@]+\.[^\s@]+$/.test(email)
matchesEmailFormat(email) ==
  \E i, j \in 1..Len(email) :
    /\ 1 < i /\ i + 1 < j /\ j < Len(email)
    /\ email[i] = "@" /\ email[j] = "."
    /\ \A k \in 1..Len(email) : k # i => email[k] \notin {"@", " "}

validateEmail(email) ==
  IF matchesEmailFormat(email) THEN Ok(Str(email))
  ELSE Err(ErrorObj("Error", "Invalid email format"))

validateAge(age) ==
  IF age >= 18 THEN Ok(Num(age)) ELSE Err(ErrorObj("Error", "Must be 18 or older"))

\* What findUserByEmail(email) may resolve to: Promise<User | null>.
findUserByEmail(email) == {Null, Obj([id |-> 1, email |-> email])}

Addresses ==
  Emails \cup {<<"a", "@", "b", ".", "c">>, <<"a", "@", ".", "c">>, <<"a", " ", "@", "b", ".", "c">>}

CreateUserInputs == {Input(age, email) : age \in Ages, email \in Addresses}

\* Mutant: what the lookup finds is yielded as present even when it is null.
createUserKeepingNull(rawInput, found) ==
  << Yield(parseCreateUserInput(rawInput)),
     Yield(validateEmail(rawInput[2].email)),
     Yield(validateAge(rawInput[2].age)),
     Await(Some(found)),
     RaiseIf("existingUser", ValidationError("User already exists")) >>

\* Flow.asyncGenAdapter body of createUser, for the user the lookup finds.
createUser(rawInput, found) ==
  << Yield(parseCreateUserInput(rawInput)),
     Yield(validateEmail(rawInput[2].email)),
     Yield(validateAge(rawInput[2].age)),
     Await(fromNullable(found)),
     RaiseIf("existingUser", ValidationError("User already exists")) >>

CreateUserScenarios ==
  {Gen("Flow", "asyncGenAdapter", createUser(c[1], c[2]), "{ email, age }") :
     c \in UNION {{<<i, u>> : u \in findUserByEmail(Str(i[2].email))} : i \in CreateUserInputs}}

\* The callbacks of the examples, by their source text.
PlainFns == {"x * 2", "x * 10"}

ResultBinders == {"Result.Ok(x + 1)", "Result.Err('a')", "Result.Err('b')"}

OptionBinders == {"Option.Some(x + 1)", "Option.None"}

\* The binders given to zipErr and the fallbacks given to orElse.
ZipErrBinders == {"id === 'guest' ? Result.Err(...) : Result.Ok(undefined)",
                  "Result.Err('Validation error')"}

Fallbacks == {"Result.Ok(0)", "Result.Err('backup failed')", "Result.Err('critical')"}

\* ([user, posts, likes]) => ({ user, posts, likes })
toCompleteData(v) == Obj([user |-> v[2][1], posts |-> v[2][2], likes |-> v[2][3]])

Call(fn, x) ==
  CASE fn = "x * 2"               -> IF x[1] = "number" THEN Num(x[2] * 2) ELSE NaN
    [] fn = "x * 10"              -> IF x[1] = "number" THEN Num(x[2] * 10) ELSE NaN
    [] fn = "Result.Ok(x + 1)"    -> Ok(IF x[1] = "number" THEN Num(x[2] + 1) ELSE NaN)
    [] fn = "Result.Err('a')"     -> Err(Str("a"))
    [] fn = "Result.Err('b')"     -> Err(Str("b"))
    [] fn = "Option.Some(x + 1)"  -> Some(IF x[1] = "number" THEN Num(x[2] + 1) ELSE NaN)
    [] fn = "Option.None"         -> None
    [] fn = "toCompleteData"      -> toCompleteData(x)
    [] fn = "id === 'guest' ? Result.Err(...) : Result.Ok(undefined)" ->
         IF x = Str("guest") THEN Err(Str("Guest users have limited access")) ELSE Ok(Undefined)
    [] fn = "Result.Err('Validation error')" -> Err(Str("Validation error"))
    [] fn = "Result.Ok(0)"                   -> Ok(Num(0))
    [] fn = "Result.Err('backup failed')"    -> Err(Str("backup failed"))
    [] fn = "Result.Err('critical')"         -> Err(Str("critical"))
    [] fn = "(p) => Option.fromNullable(p.settings)"      -> fromNullable(Prop(x, "settings"))
    [] fn = "(s) => Option.fromNullable(s.notifications)" ->
         fromNullable(Prop(x, "notifications"))
    [] fn = "(n) => Option.Some(n.email)"                 -> Some(Prop(x, "email"))
    [] fn = "x > 10"           -> <<"boolean", x[1] = "number" /\ x[2] > 10>>
    [] fn = "Network: ${e}"  -> <<"string", "Network: ", x>>

\* A success container of the same kind as c.
Same(c, v) == IF c.tag \in {"Some", "None"} THEN Some(v) ELSE Ok(v)

Link(method, fn) == [method |-> method, fn |-> fn]

\* .flatMap((x) => f(x).flatMap(g))
Composed(f, g) == [method |-> "flatMap", fn |-> f, then |-> g]

\* The callback of a link applied to x.
RECURSIVE Method(_, _)
Apply(link, x) ==
  IF "then" \in DOMAIN link
    THEN Method(Call(link.fn, x), Link("flatMap", link.then)).out
    ELSE Call(link.fn, x)

\* Mutant: zipErr returns what the binder returned, as flatMap does.
zipErrReturningBinderResult(c, fn) ==
  IF isErr(c) THEN [called |-> FALSE, out |-> c]
  ELSE [called |-> TRUE, out |-> Call(fn, c.value)]

\* c.zipErr(fn): the Result returned and whether fn was invoked.
zipErr(c, fn) ==
  IF isErr(c) THEN [called |-> FALSE, out |-> c]
  ELSE LET r == Call(fn, c.value)
       IN [called |-> TRUE, out |-> IF isErr(r) THEN r ELSE c]

\* Mutant: the fallback replaces the receiver whatever its variant.
orElseOnEveryVariant(c, fn) ==
  [called |-> TRUE, out |-> Call(fn, IF isOk(c) THEN c.value ELSE c.error)]

\* c.orElse(fn): the Result returned and whether fn was invoked.
orElse(c, fn) ==
  IF isOk(c) THEN [called |-> FALSE, out |-> c]
  ELSE [called |-> TRUE, out |-> Call(fn, c.error)]

\* Mutant: the callback is invoked whatever the variant of the receiver.
MethodCallsEagerly(c, link) ==
  IF link.method = "zipErr" THEN zipErr(c, link.fn)
  ELSE IF link.method = "orElse" THEN orElse(c, link.fn)
  ELSE
  [called |-> TRUE,
   out |-> IF c.tag \in {"Err", "None"} THEN c
           ELSE CASE link.method = "map"     -> Same(c, Apply(link, c.value))
                  [] link.method = "flatMap" -> Apply(link, c.value)
                  [] link.method = "zip"     -> Same(c, Arr(<<c.value, Apply(link, c.value)>>))
                  [] link.method = "flatZip" ->
                       LET r == Apply(link, c.value)
                       IN IF r.tag \in {"Err", "None"} THEN r
                          ELSE Same(c, Arr(<<c.value, r.value>>))]

\* Mutant: flatMap wraps what the callback returned, as map does.
MethodFlatMapNotFlattening(c, link) ==
  IF link.method = "zipErr" THEN zipErr(c, link.fn)
  ELSE IF link.method = "orElse" THEN orElse(c, link.fn)
  ELSE IF c.tag \in {"Err", "None"}
    THEN [called |-> FALSE, out |-> c]
    ELSE [called |-> TRUE,
          out |-> CASE link.method = "map"     -> Same(c, Apply(link, c.value))
                    [] link.method = "flatMap" -> Same(c, Obj(Apply(link, c.value)))
                    [] link.method = "zip"     ->
                         Same(c, Arr(<<c.value, Apply(link, c.value)>>))
                    [] link.method = "flatZip" ->
                         LET r == Apply(link, c.value)
                         IN IF r.tag \in {"Err", "None"} THEN r
                            ELSE Same(c, Arr(<<c.value, r.value>>))]

\* c.map(fn), c.flatMap(fn), c.zip(fn), c.flatZip(fn): the container
\* returned and whether fn was invoked.
Method(c, link) ==
  IF link.method = "zipErr" THEN zipErr(c, link.fn)
  ELSE IF link.method = "orElse" THEN orElse(c, link.fn)
  ELSE IF c.tag \in {"Err", "None"}
    THEN [called |-> FALSE, out |-> c]
    ELSE [called |-> TRUE,
          out |-> CASE link.method = "map"     -> Same(c, Apply(link, c.value))
                    [] link.method = "flatMap" -> Apply(link, c.value)
                    [] link.method = "zip"     ->
                         Same(c, Arr(<<c.value, Apply(link, c.value)>>))
                    [] link.method = "flatZip" ->
                         LET r == Apply(link, c.value)
                         IN IF r.tag \in {"Err", "None"} THEN r
                            ELSE Same(c, Arr(<<c.value, r.value>>))]

\* Mutant: the asynchronous methods start their callback whatever the
\* variant of the receiver.
MethodAsyncCallsEagerly(c, link) ==
  LET onErr == link.method \in {"mapErrAsync", "orElseAsync"}
      x == IF c.tag \in {"Some", "Ok"} THEN c.value
           ELSE IF isErr(c) THEN c.error ELSE Undefined
      v == Call(link.fn, x)
  IN IF (onErr /\ ~isErr(c)) \/ (~onErr /\ c.tag \in {"Err", "None"})
       THEN [called |-> TRUE, out |-> c]
       ELSE [called |-> TRUE,
             out |-> CASE link.method = "mapAsync"     -> Same(c, v)
                       [] link.method = "flatMapAsync" -> v
                       [] link.method = "filterAsync"  ->
                            IF v = <<"boolean", TRUE>> THEN c ELSE None
                       [] link.method = "zipAsync"     -> Same(c, Arr(<<c.value, v>>))
                       [] link.method = "flatZipAsync" ->
                            IF v.tag \in {"Err", "None"} THEN v
                            ELSE Same(c, Arr(<<c.value, v.value>>))
                       [] link.method = "mapErrAsync"  -> Err(v)
                       [] link.method = "orElseAsync"  -> v]

\* c.mapAsync(fn), c.flatMapAsync(fn), c.filterAsync(fn), c.zipAsync(fn),
\* c.flatZipAsync(fn), c.mapErrAsync(fn), c.orElseAsync(fn): whether fn is
\* started, and the container the promise resolves to once fn has resolved.
MethodAsync(c, link) ==
  LET onErr == link.method \in {"mapErrAsync", "orElseAsync"}
  IN IF (onErr /\ ~isErr(c)) \/ (~onErr /\ c.tag \in {"Err", "None"})
       THEN [called |-> FALSE, out |-> c]
       ELSE LET v == Call(link.fn, IF onErr THEN c.error ELSE c.value)
            IN [called |-> TRUE,
                out |-> CASE link.method = "mapAsync"     -> Same(c, v)
                          [] link.method = "flatMapAsync" -> v
                          [] link.method = "filterAsync"  ->
                               IF v = <<"boolean", TRUE>> THEN c ELSE None
                          [] link.method = "zipAsync"     -> Same(c, Arr(<<c.value, v>>))
                          [] link.method = "flatZipAsync" ->
                               IF v.tag \in {"Err", "None"} THEN v
                               ELSE Same(c, Arr(<<c.value, v.value>>))
                          [] link.method = "mapErrAsync"  -> Err(v)
                          [] link.method = "orElseAsync"  -> v]

\* The validators of the examples.
Validators == <<"x > 0", "x < 100", "x % 2 === 0">>

Validator(name, x) ==
  CASE name = "x > 0"       -> IF x > 0 THEN Ok(<<"boolean", TRUE>>) ELSE Err(Str("must be positive"))
    [] name = "x < 100"     -> IF x < 100 THEN Ok(<<"boolean", TRUE>>) ELSE Err(Str("must be < 100"))
    [] name = "x % 2 === 0" -> IF JsRem(x, 2) = 0 THEN Ok(<<"boolean", TRUE>>)
                                                  ELSE Err(Str("must be even"))

\* The errors of the validators i.. of vs run on x, in validator order.
RECURSIVE CollectErrors(_, _, _)
CollectErrors(x, vs, i) ==
  IF i > Len(vs) THEN <<>>
  ELSE LET r == Validator(vs[i], x)
           rest == CollectErrors(x, vs, i + 1)
       IN IF isErr(r) THEN <<r.error>> \o rest ELSE rest

\* Mutant: validation stops at the first validator that fails.
validateFailFast(self, vs) ==
  IF isErr(self) THEN [invoked |-> <<>>, out |-> self]
  ELSE LET errs == CollectErrors(self.value[2], vs, 1)
           failing == {i \in 1..Len(vs) : isErr(Validator(vs[i], self.value[2]))}
           stop == IF failing = {} THEN Len(vs)
                   ELSE CHOOSE i \in failing : \A j \in failing : i <= j
       IN [invoked |-> [i \in 1..stop |-> i],
           out |-> IF errs = <<>> THEN self ELSE Err(Arr(<<errs[1]>>))]

\* Mutant: the error of an Err receiver is put in a list like collected ones.
validateWrappingErr(self, vs) ==
  IF isErr(self) THEN [invoked |-> <<>>, out |-> Err(Arr(<<self.error>>))]
  ELSE LET errs == CollectErrors(self.value[2], vs, 1)
       IN [invoked |-> [i \in 1..Len(vs) |-> i],
           out |-> IF errs = <<>> THEN self ELSE Err(Arr(errs))]

\* self.validate(vs): the Result returned and the validators invoked.
validate(self, vs) ==
  IF isErr(self) THEN [invoked |-> <<>>, out |-> self]
  ELSE LET errs == CollectErrors(self.value[2], vs, 1)
       IN [invoked |-> [i \in 1..Len(vs) |-> i],
           out |-> IF errs = <<>> THEN self ELSE Err(Arr(errs))]

\* The values and the errors of the results i.. of rs, in input order.
RECURSIVE Partition(_, _)
Partition(rs, i) ==
  IF i > Len(rs) THEN [values |-> <<>>, errors |-> <<>>]
  ELSE LET rest == Partition(rs, i + 1)
       IN IF isOk(rs[i])
            THEN [values |-> <<rs[i].value>> \o rest.values, errors |-> rest.errors]
            ELSE [values |-> rest.values, errors |-> <<rs[i].error>> \o rest.errors]

\* Mutant: the errors are collected as the validators complete.
validateAsyncInCompletionOrder(self, settled, completed) ==
  LET failed == SelectSeq(completed, LAMBDA i : isErr(settled[i]))
  IN IF failed = <<>> THEN self
     ELSE Err(Arr([k \in 1..Len(failed) |-> settled[failed[k]].error]))

\* What self.validateAsync(validators) resolves to once every validator has
\* resolved: settled[i] is the Result of validator i, completed the order in
\* which they resolved.
validateAsync(self, settled, completed) ==
  LET errs == Partition(settled, 1).errors
  IN IF errs = <<>> THEN self ELSE Err(Arr(errs))

\* Mutant: Result.all stops at the first Err, as a flatMap chain would.
ResultAllFailFast(rs) ==
  LET p == Partition(rs, 1)
  IN IF p.errors = <<>> THEN Ok(Arr(p.values)) ELSE Err(Arr(<<p.errors[1]>>))

\* Result.all(...rs)
ResultAll(rs) ==
  LET p == Partition(rs, 1)
  IN IF p.errors = <<>> THEN Ok(Arr(p.values)) ELSE Err(Arr(p.errors))

\* Mutant: Result.any keeps the last Ok it meets.
ResultAnyLastWins(rs) ==
  LET oks == {i \in 1..Len(rs) : isOk(rs[i])}
  IN IF oks = {} THEN Err(Arr(Partition(rs, 1).errors))
     ELSE rs[CHOOSE i \in oks : \A j \in oks : j <= i]

\* Result.any(...rs)
RECURSIVE ResultAny(_)
ResultAny(rs) ==
  IF isOk(rs[1]) THEN rs[1]
  ELSE IF Len(rs) = 1 THEN Err(Arr(<<rs[1].error>>))
  ELSE LET rest == ResultAny(Tail(rs))
       IN IF isOk(rest) THEN rest ELSE Err(Arr(<<rs[1].error>> \o rest.error[2]))

\* Mutant: Option.all drops the None inputs and keeps the values of the rest.
OptionAllSkippingNone(os) ==
  LET somes == SelectSeq(os, isSome)
  IN Some(Arr([k \in 1..Len(somes) |-> somes[k].value]))

\* Option.all(...os)
RECURSIVE OptionAll(_)
OptionAll(os) ==
  IF os = <<>> THEN Some(Arr(<<>>))
  ELSE IF isNone(os[1]) THEN None
  ELSE LET rest == OptionAll(Tail(os))
       IN IF isNone(rest) THEN None ELSE Some(Arr(<<os[1].value>> \o rest.value[2]))

(***************************************************************************)
(* Methods that leave the container world: a call either returns a value   *)
(* (a container, or Returned(v) for a plain value) or throws.              *)
(***************************************************************************)
Returned(v) == [tag |-> "Returned", value |-> v]

Thrown(e) == [tag |-> "Thrown", error |-> e]

\* A template literal `prefix${v}`.
Template(prefix, v) == <<"string", prefix, v>>

\* Whether e extends Error.
IsErrorInstance(e) == e[1] = "error"

UnwrappedOkWithErr(e) == <<"error", "UnwrappedOkWithErr", e>>

UnwrappedErrWithOk == ErrorObj("UnwrappedErrWithOk", "")

\* Mutant: unwrap wraps every error of an Err, Error instances included.
unwrapAlwaysWrapping(c) ==
  CASE isSome(c) \/ isOk(c) -> Returned(c.value)
    [] isNone(c)            -> Thrown(UnwrappedNone)
    [] isErr(c)             -> Thrown(UnwrappedOkWithErr(c.error))

\* c.unwrap()
unwrap(c) ==
  CASE isSome(c) \/ isOk(c) -> Returned(c.value)
    [] isNone(c)            -> Thrown(UnwrappedNone)
    [] isErr(c)             ->
         Thrown(IF IsErrorInstance(c.error) THEN c.error ELSE UnwrappedOkWithErr(c.error))

\* c.unwrapErr()
unwrapErr(c) == IF isErr(c) THEN Returned(c.error) ELSE Thrown(UnwrappedErrWithOk)

\* c.unwrapOr(0)
unwrapOr(c, defaultValue) ==
  IF isSome(c) \/ isOk(c) THEN Returned(c.value) ELSE Returned(defaultValue)

\* c.unwrapOrElse(fn): () => 0 on an Option, (err) => `Default: ${err}` on a
\* Result.
unwrapOrElse(c) ==
  CASE isSome(c) \/ isOk(c) -> Returned(c.value)
    [] isNone(c)            -> Returned(Num(0))
    [] isErr(c)             -> Returned(Template("Default: ", c.error))

\* Mutant: safeUnwrap behaves as unwrap on a failure variant.
safeUnwrapThrowing(c) ==
  CASE isSome(c) \/ isOk(c) -> Returned(c.value)
    [] isNone(c)            -> Thrown(UnwrappedNone)
    [] isErr(c)             -> Thrown(UnwrappedOkWithErr(c.error))

\* c.safeUnwrap()
safeUnwrap(c) == IF isSome(c) \/ isOk(c) THEN Returned(c.value) ELSE Returned(Null)

\* c.mapOr(0, (x) => x * 2)
mapOr(c) == IF isSome(c) THEN Returned(Call("x * 2", c.value)) ELSE Returned(Num(0))

\* c.match({...}) with the handlers of the examples; fold takes the same
\* handlers by position.
match(c) ==
  CASE isOk(c)   -> Returned(Template("Success: ", c.value))
    [] isErr(c)  -> Returned(Template("Failed: ", c.error))
    [] isSome(c) -> Returned(Template("Got: ", c.value))
    [] isNone(c) -> Returned(Str("Got nothing"))

fold(c) == match(c)

\* c.mapErr((e) => `Network: ${e}`)
mapErr(c) == IF isErr(c) THEN Err(Template("Network: ", c.error)) ELSE c

\* c.mapBoth((val) => `Success: ${val}`, (err) => `Error: ${err}`)
mapBoth(c) ==
  IF isOk(c) THEN Ok(Template("Success: ", c.value)) ELSE Err(Template("Error: ", c.error))

\* c.filter((x) => x > 10)
filter(c) == IF isSome(c) /\ Call("x > 10", c.value) = <<"boolean", FALSE>> THEN None ELSE c

\* c.tap(fn), c.tapErr(fn)
tap(c) == c

\* c.toResult("was none")
toResult(c) == IF isSome(c) THEN Ok(c.value) ELSE Err(Str("was none"))

\* c.toOption()
toOption(c) == IF isOk(c) THEN Some(c.value) ELSE None

\* c.flip()
flip(c) == IF isOk(c) THEN Err(c.value) ELSE Ok(c.error)

OptionMethods ==
  {"unwrap", "unwrapOr", "unwrapOrElse", "safeUnwrap", "mapOr", "match", "fold", "filter",
   "tap", "toResult"}

ResultMethods ==
  {"unwrap", "unwrapErr", "unwrapOr", "unwrapOrElse", "safeUnwrap", "match", "fold", "mapErr",
   "mapBoth", "tap", "toOption", "flip"}

\* c.method(...)
Invoke(c, method) ==
  CASE method = "unwrap"       -> unwrap(c)
    [] method = "unwrapErr"    -> unwrapErr(c)
    [] method = "unwrapOr"     -> unwrapOr(c, Num(0))
    [] method = "unwrapOrElse" -> unwrapOrElse(c)
    [] method = "safeUnwrap"   -> safeUnwrap(c)
    [] method = "mapOr"        -> mapOr(c)
    [] method = "match"        -> match(c)
    [] method = "fold"         -> fold(c)
    [] method = "mapErr"       -> mapErr(c)
    [] method = "mapBoth"      -> mapBoth(c)
    [] method = "filter"       -> filter(c)
    [] method = "tap"          -> tap(c)
    [] method = "toResult"     -> toResult(c)
    [] method = "toOption"     -> toOption(c)
    [] method = "flip"         -> flip(c)

(***************************************************************************)
(* Optional property access.                                               *)
(***************************************************************************)
\* The values of an optional property whose objects are those of inner: the
\* property is missing, undefined, null, or one of the objects.
Optional(field, inner) ==
  {Obj(<<>>)} \cup {Obj([f \in {field} |-> v]) : v \in inner \cup {Undefined, Null}}

\* interface User { profile?: { settings?: { notifications?: { email } } } }
Users ==
  Optional("profile",
    Optional("settings",
      Optional("notifications", {Obj([email |-> <<"boolean", b>>]) : b \in BOOLEAN})))

(***************************************************************************)
(* The cache-aside example of the Flow workflow.                           *)
(***************************************************************************)
\* The keys of the cache.
Keys == {"a", "b"}

\* new Map()
EmptyCache == [k \in Keys |-> Undefined]

\* getFromCache(key), for the value the Map holds under key.
getFromCache(stored) == fromNullable(stored)

\* return {} as T
fetchFromDb(key) == Obj(<<>>)

\* getFromDatabase(key)
getFromDatabase(key) == Ok(fetchFromDb(key))

\* A promise that rejects with e.
Rejected(e) == [tag |-> "Rejected", error |-> e]

\* cache.set(key, value) returns the Map, which has no catch method.
CatchIsNotAFunction == ErrorObj("TypeError", "cache.set(...).catch is not a function")

\* What a key of the cache may hold when getCachedOrDb is called: nothing, a
\* value, or a value that is falsy without being nullish.
StoredValues == {Undefined, Str("cached"), Num(0)}

(***************************************************************************)
(* The cache-aside pattern of the skill: getProduct(id).                   *)
(***************************************************************************)
\* A product row: the database may hold it in one state or another.
Product(id, state) == Obj([id |-> id, state |-> state])

ProductStates == {"listed", "repriced"}

\* What db.products.findById(id) may resolve to.
findById(id) ==
  {Ok(Product(id, st)) : st \in ProductStates} \cup {Err(ErrorObj("Error", "db unavailable"))}

\* What the cache may hold when the first call starts: for each id nothing,
\* or a product stored earlier.
StoredProducts == [Keys -> {Undefined} \cup {Product(id, "listed") : id \in Keys}]

(***************************************************************************)
(* The calls the model runs.                                               *)
(***************************************************************************)
ValidateInputs == {Ok(Num(x)) : x \in {-5, 0, 1, 42, 99, 100, 101, 102}} \cup {Err(Str("init"))}

ValidateScenarios ==
  {[op |-> "validate", self |-> r, validators |-> vs] :
      r \in ValidateInputs, vs \in SeqsUpTo({Validators[i] : i \in 1..Len(Validators)}, MaxArgs)}

AggregateInputs == {Ok(Num(1)), Ok(Num(2)), Err(Str("a")), Err(Str("b"))}

AggregateScenarios ==
  {[op |-> "all", args |-> rs] : rs \in SeqsUpTo(AggregateInputs, MaxArgs)}
    \cup {[op |-> "any", args |-> rs] : rs \in SeqsUpTo(AggregateInputs, MaxArgs) \ {<<>>}}

\* What fetchUserResult, fetchPostsResult and fetchLikesResult may resolve to.
FetchOutcomes ==
  { <<u, p, l>> : u \in {Ok(Str("user")), Err(ErrorObj("Error", "no user"))},
                  p \in {Ok(Str("posts")), Err(ErrorObj("Error", "no posts"))},
                  l \in {Ok(Str("likes")), Err(ErrorObj("Error", "no likes"))} }

FetchAllScenarios == {[op |-> "fetchAllUserData", outcomes |-> o] : o \in FetchOutcomes}

OptionAggregateInputs == {Some(Num(1)), Some(Num(2)), Some(Num(3)), None}

OptionAllScenarios ==
  {[op |-> "Option.all", args |-> os] : os \in SeqsUpTo(OptionAggregateInputs, MaxArgs)}

MethodScenarios ==
  {[op |-> "call", self |-> c, method |-> m] :
      c \in {Some(Num(42)), Some(Num(5)), None}, m \in OptionMethods}
    \cup {[op |-> "call", self |-> c, method |-> m] :
      c \in {Ok(Num(42)), Err(Str("fail")), Err(ErrorObj("Error", "fail"))},
      m \in ResultMethods}

\* (c.flatMap(f)).flatMap(g) beside c.flatMap((x) => f(x).flatMap(g)).
NestingScenarios ==
  {[op |-> "nesting", self |-> c, f |-> f, g |-> g] :
      c \in {Ok(Num(1)), Ok(Num(42)), Err(Str("initial"))}, f \in ResultBinders, g \in ResultBinders}
    \cup {[op |-> "nesting", self |-> c, f |-> f, g |-> g] :
      c \in {Some(Num(5)), None}, f \in OptionBinders, g \in OptionBinders}

\* What the validators of validateRegistration may resolve to.
RegistrationChecks ==
  {Ok(<<"boolean", TRUE>>), Err(Str("Email already registered")),
   Err(Str("Username not available")), Err(Str("Password found in data breaches"))}

ValidateAsyncScenarios ==
  {[op |-> "validateAsync", self |-> c, outcomes |-> o] :
      c \in {Ok(Str("input")), Err(Str("init"))},
      o \in SeqsUpTo(RegistrationChecks, MaxArgs)}

ChainLinks(binders) ==
  {Link(m, f) : m \in {"map", "zip"}, f \in PlainFns}
    \cup {Link(m, f) : m \in {"flatMap", "flatZip"}, f \in binders}

\* zipErr and orElse links.
RecoveryLinks ==
  {Link("zipErr", f) : f \in ZipErrBinders} \cup {Link("orElse", f) : f \in Fallbacks}

ChainScenarios ==
  {[op |-> "chain", self |-> c, links |-> ls] :
      c \in {Ok(Num(1)), Ok(Num(42)), Err(Str("initial"))},
      ls \in SeqsUpTo(ChainLinks(ResultBinders) \cup RecoveryLinks, MaxChain)}
    \cup {[op |-> "chain", self |-> c, links |-> ls] :
      c \in {Ok(Str("guest")), Ok(Str("admin-123")), Err(Str("Network error"))},
      ls \in SeqsUpTo(RecoveryLinks, MaxChain)}
    \cup {[op |-> "chain", self |-> c, links |-> ls] :
      c \in {Some(Num(5)), None}, ls \in SeqsUpTo(ChainLinks(OptionBinders), MaxChain)}

\* The links of a chain of asynchronous methods.
AsyncLinks(kind) ==
  {Link(m, f) : m \in {"mapAsync", "zipAsync"}, f \in PlainFns}
    \cup (IF kind = "Option"
            THEN {Link(m, f) : m \in {"flatMapAsync", "flatZipAsync"}, f \in OptionBinders}
                   \cup {Link("filterAsync", "x > 10")}
            ELSE {Link(m, f) : m \in {"flatMapAsync", "flatZipAsync"}, f \in ResultBinders}
                   \cup {Link("mapErrAsync", "Network: ${e}")}
                   \cup {Link("orElseAsync", f) : f \in Fallbacks})

AsyncChainScenarios ==
  {[op |-> "asyncChain", self |-> c, links |-> ls] :
      c \in {Ok(Num(5)), Ok(Num(42)), Err(Str("timeout"))},
      ls \in SeqsUpTo(AsyncLinks("Result"), MaxChain)}
    \cup {[op |-> "asyncChain", self |-> c, links |-> ls] :
      c \in {Some(Num(5)), Some(Num(42)), None}, ls \in SeqsUpTo(AsyncLinks("Option"), MaxChain)}

\* What a call of the fn given to fetchWithRetry may resolve to.
FnOutcomes ==
  {Ok(Str("data")), Err(ErrorObj("Error", "API error")), Err(ErrorObj("Error", "Network error"))}

\* fetchWithRetry(fn, maxRetries); fetchUserDataWithRetry leaves maxRetries to
\* its default, 3.
RetryScenarios == {[op |-> "fetchWithRetry", maxRetries |-> n] : n \in -1..MaxRetries}

\* Both accessors called on the same user.
AccessScenarios == {[op |-> "optionalAccess", user |-> u] : u \in Users}

\* getCachedOrDb(key), with what the cache holds under key.
CachedOrDbScenarios ==
  {[op |-> "getCachedOrDb", key |-> k, stored |-> v] : k \in Keys, v \in StoredValues}

\* Calls of getProduct on a cache shared by all of them.
GetProductScenarios ==
  {[op |-> "getProduct", stored |-> c] :
      c \in {c \in StoredProducts : \A id \in Keys : c[id] \in {Undefined, Product(id, "listed")}}}

(***************************************************************************)
(* State.                                                                  *)
(*   scenario  the call under execution and its arguments                  *)
(*   pc        where the call is: "ready", "awaiting", "suspended", "done" *)
(*   ip        index of the next statement of the generator body           *)
(*   env       the values the call holds: what the body has received back *)
(*             from its yields; the receiver of a method chain and the     *)
(*             container each link returned; the slots of the fetches of   *)
(*             fetchAllUserData                                            *)
(*   yielded   what the body handed to the engine at its suspension        *)
(*   trace     the side effects so far, in order: the index of every       *)
(*             statement, validator or callback that ran                   *)
(*   result    the value the call returned, or NotReturned                 *)
(*   cache     the cache the cache-aside examples share: the value stored  *)
(*             under each key, undefined for a key that is absent          *)
(*   calls     the calls of getProduct that have started, each with its    *)
(*             own position and local variables                            *)
(***************************************************************************)
VARIABLES scenario, pc, ip, env, yielded, trace, result, cache, calls

vars == <<scenario, pc, ip, env, yielded, trace, result, cache, calls>>

NotReturned == [tag |-> "NotReturned"]

Nothing == [tag |-> "Nothing"]

\* A computation that has not resolved yet.
Pending == [tag |-> "Pending"]

(***************************************************************************)
(* The sequencing engine.                                                  *)
(***************************************************************************)
\* `$`: the adapter wraps the container it is given.
Adapter(c) == [tag |-> "Wrapped", inner |-> c]

\* Mutant: the adapter hands the body a default in place of a failure.
UnwrappedSwallowingFailure(y) ==
  IF y.tag = "Wrapped"
    THEN (IF y.inner.tag \in {"None", "Err"} THEN Some(Num(0)) ELSE y.inner)
    ELSE y

Unwrapped(y) == IF y.tag = "Wrapped" THEN y.inner ELSE y

\* Mutant: a returned Result is flattened instead of being wrapped.
CompletedFlattening(engine, returnValue) ==
  IF engine = "Option" THEN Some(returnValue)
  ELSE IF returnValue[1] = "object" THEN returnValue[2]
  ELSE Ok(returnValue)

\* What the engine returns when the body completes with returnValue.
Completed(engine, returnValue) ==
  IF engine = "Option" THEN Some(returnValue) ELSE Ok(returnValue)

\* Whether a yielded item stops the sequence.
Aborts(c) == isNone(c) \/ isErr(c) \/ isFlowError(c)

\* Mutant: every failure of a Flow sequence is reported as an absence.
AbortedAsAbsence(engine, c) ==
  CASE engine = "Option" -> None
    [] engine = "Result" -> c
    [] engine = "Flow"   -> Err(UnwrappedNone)

\* Mutant: a raised FlowError is reported wrapped in a list of errors.
AbortedWrappingRaise(engine, c) ==
  CASE engine = "Option" -> None
    [] engine = "Result" -> c
    [] engine = "Flow"   ->
         IF isNone(c) THEN Err(UnwrappedNone)
         ELSE IF isFlowError(c) THEN Err(Arr(<<c.error>>))
         ELSE c

\* What the engine returns when the yielded item c stops the sequence.
Aborted(engine, c) ==
  CASE engine = "Option" -> None
    [] engine = "Result" -> c
    [] engine = "Flow"   ->
         IF isNone(c) THEN Err(UnwrappedNone)
         ELSE IF isFlowError(c) THEN Err(c.error)
         ELSE c

\* Mutant: when the body reaches an awaited call, the call of the statement
\* after it is started at once as well.
ResumeStartingNextToo ==
  /\ scenario.op = "gen"
  /\ pc = "ready"
  /\ IF ip > Len(scenario.body)
       THEN /\ result' = Completed(scenario.engine, ReturnValue(scenario.ret, env))
            /\ pc' = "done"
            /\ UNCHANGED <<ip, env, yielded, trace>>
       ELSE LET st == scenario.body[ip]
            IN IF st.op = "yield"
                 THEN /\ yielded' = IF IsAdapter(scenario.variant) THEN Adapter(st.c) ELSE st.c
                      /\ trace' = Append(trace, ip)
                      /\ pc' = "suspended"
                      /\ UNCHANGED <<ip, env, result>>
                 ELSE IF st.op = "await"
                 THEN /\ yielded' = Pending
                      /\ trace' = IF ip < Len(scenario.body) /\ scenario.body[ip + 1].op = "await"
                                    THEN trace \o <<ip, ip + 1>> ELSE Append(trace, ip)
                      /\ pc' = "awaiting"
                      /\ UNCHANGED <<ip, env, result>>
                 ELSE IF st.op = "const"
                 THEN /\ env' = Append(env, Obj(st.c))
                      /\ trace' = Append(trace, ip)
                      /\ ip' = ip + 1
                      /\ UNCHANGED <<pc, yielded, result>>
                 ELSE IF Test(st.cond, env)
                        THEN /\ yielded' = FlowError(st.error)
                             /\ trace' = Append(trace, ip)
                             /\ pc' = "suspended"
                             /\ UNCHANGED <<ip, env, result>>
                        ELSE /\ ip' = ip + 1
                             /\ UNCHANGED <<pc, env, yielded, trace, result>>
  /\ UNCHANGED <<scenario, cache, calls>>

\* A synchronous sequence called inside another body, run to its end: what
\* the call X.gen(function* () { body; return a + b + c }) returns.
RECURSIVE Run(_, _, _, _)
Run(engine, body, i, vals) ==
  IF i > Len(body) THEN Completed(engine, ReturnValue("a + b + c", vals))
  ELSE IF Aborts(body[i].c) THEN Aborted(engine, body[i].c)
  ELSE Run(engine, body, i + 1, Append(vals, body[i].c.value))

\* `yield* X.gen(...)`: the body yields the container the inner call returned.
YieldGen(engine, body) ==
  [op |-> "yield", c |-> Run(engine, body, 1, <<>>), inner |-> [engine |-> engine, body |-> body]]

\* `const r = X.gen(...)`: the body keeps the container the inner call returned.
ConstGen(engine, body) ==
  [op |-> "const", c |-> Run(engine, body, 1, <<>>), inner |-> [engine |-> engine, body |-> body]]

\* The statements that yield a container at hand.
Yields(engine) == {st \in Statements(engine, "gen") : st.op = "yield"}

\* The engines whose containers a body of the engine may yield.
Yieldable(engine) == IF engine = "Flow" THEN {"Option", "Result", "Flow"} ELSE {engine}

\* A body that calls an inner sequence and then yields once more.
NestedScenarios ==
  UNION { UNION { { Gen(outer, "gen", <<nest, rest>>, "inner") :
                      nest \in {YieldGen(inner, b) : b \in SeqsUpTo(Yields(inner), MaxNested)}
                                 \cup {ConstGen(inner, b) : b \in SeqsUpTo(Yields(inner), MaxNested)},
                      rest \in Yields(outer) } :
                  inner \in Yieldable(outer) } :
          outer \in {"Option", "Result", "Flow"} }

\* The body runs from its last suspension up to its next yield, or returns.
Resume ==
  /\ scenario.op = "gen"
  /\ pc = "ready"
  /\ IF ip > Len(scenario.body)
       THEN /\ result' = Completed(scenario.engine, ReturnValue(scenario.ret, env))
            /\ pc' = "done"
            /\ UNCHANGED <<ip, env, yielded, trace>>
       ELSE LET st == scenario.body[ip]
            IN IF st.op = "yield"
                 THEN /\ yielded' = IF IsAdapter(scenario.variant) THEN Adapter(st.c) ELSE st.c
                      /\ trace' = Append(trace, ip)
                      /\ pc' = "suspended"
                      /\ UNCHANGED <<ip, env, result>>
                 ELSE IF st.op = "await"
                 THEN /\ yielded' = Pending
                      /\ trace' = Append(trace, ip)
                      /\ pc' = "awaiting"
                      /\ UNCHANGED <<ip, env, result>>
                 ELSE IF st.op = "const"
                 THEN /\ env' = Append(env, Obj(st.c))
                      /\ trace' = Append(trace, ip)
                      /\ ip' = ip + 1
                      /\ UNCHANGED <<pc, yielded, result>>
                 ELSE IF Test(st.cond, env)
                        THEN /\ yielded' = FlowError(st.error)
                             /\ trace' = Append(trace, ip)
                             /\ pc' = "suspended"
                             /\ UNCHANGED <<ip, env, result>>
                        ELSE /\ ip' = ip + 1
                             /\ UNCHANGED <<pc, env, yielded, trace, result>>
  /\ UNCHANGED <<scenario, cache, calls>>

\* Mutant: the engine gives up on a computation that does not resolve and
\* ends the sequence with an error.
SettleOrTimeout ==
  /\ scenario.op = "gen"
  /\ pc = "awaiting"
  /\ IF scenario.body[ip].c.tag = "Pending"
       THEN /\ result' = Err(Str("timeout"))
            /\ pc' = "done"
            /\ UNCHANGED yielded
       ELSE /\ LET c == scenario.body[ip].c
               IN yielded' = IF IsAdapter(scenario.variant) THEN Adapter(c) ELSE c
            /\ pc' = "suspended"
            /\ UNCHANGED result
  /\ UNCHANGED <<scenario, cache, calls, ip, env, trace>>

\* The computation the body awaits resolves; the body yields its container.
\* A computation that never resolves (Await(Pending)) leaves nothing to do.
Settle ==
  /\ scenario.op = "gen"
  /\ pc = "awaiting"
  /\ scenario.body[ip].c.tag # "Pending"
  /\ LET c == scenario.body[ip].c
     IN yielded' = IF IsAdapter(scenario.variant) THEN Adapter(c) ELSE c
  /\ pc' = "suspended"
  /\ UNCHANGED <<scenario, cache, calls, ip, env, trace, result>>

\* Mutant: the engine records the first failure but keeps driving the body.
InspectWithoutStopping ==
  /\ scenario.op = "gen"
  /\ pc = "suspended"
  /\ LET c == Unwrapped(yielded)
     IN IF Aborts(c)
          THEN /\ result' = Aborted(scenario.engine, c)
               /\ env' = Append(env, <<"undefined", 0>>)
          ELSE /\ env' = Append(env, c.value)
               /\ UNCHANGED result
  /\ ip' = ip + 1
  /\ pc' = "ready"
  /\ yielded' = Nothing
  /\ UNCHANGED <<scenario, cache, calls, trace>>

\* Mutant: the engine lets the signal that ends the sequence reach the caller.
InspectLettingAbortEscape ==
  /\ scenario.op = "gen"
  /\ pc = "suspended"
  /\ LET c == Unwrapped(yielded)
     IN IF Aborts(c)
          THEN /\ result' = Thrown(ErrorObj("SequenceAbort", ""))
               /\ pc' = "done"
               /\ UNCHANGED <<ip, env>>
          ELSE /\ env' = Append(env, c.value)
               /\ ip' = ip + 1
               /\ pc' = "ready"
               /\ UNCHANGED result
  /\ yielded' = Nothing
  /\ UNCHANGED <<scenario, cache, calls, trace>>

\* The engine looks at what was yielded: it hands the payload back to the
\* body, or ends the sequence.
Inspect ==
  /\ scenario.op = "gen"
  /\ pc = "suspended"
  /\ LET c == Unwrapped(yielded)
     IN IF Aborts(c)
          THEN /\ result' = Aborted(scenario.engine, c)
               /\ pc' = "done"
               /\ UNCHANGED <<ip, env>>
          ELSE /\ env' = Append(env, c.value)
               /\ ip' = ip + 1
               /\ pc' = "ready"
               /\ UNCHANGED result
  /\ yielded' = Nothing
  /\ UNCHANGED <<scenario, cache, calls, trace>>

\* self.validate(validators)
CallValidate ==
  /\ scenario.op = "validate"
  /\ pc = "ready"
  /\ LET r == validate(scenario.self, scenario.validators)
     IN /\ result' = r.out
        /\ trace' = r.invoked
  /\ pc' = "done"
  /\ UNCHANGED <<scenario, cache, calls, ip, env, yielded>>

\* Result.all(...args)
CallAll ==
  /\ scenario.op = "all"
  /\ pc = "ready"
  /\ result' = ResultAll(scenario.args)
  /\ pc' = "done"
  /\ UNCHANGED <<scenario, cache, calls, ip, env, yielded, trace>>

\* Result.any(...args)
CallAny ==
  /\ scenario.op = "any"
  /\ pc = "ready"
  /\ result' = ResultAny(scenario.args)
  /\ pc' = "done"
  /\ UNCHANGED <<scenario, cache, calls, ip, env, yielded, trace>>

\* Option.all(...args)
CallOptionAll ==
  /\ scenario.op = "Option.all"
  /\ pc = "ready"
  /\ result' = OptionAll(scenario.args)
  /\ pc' = "done"
  /\ UNCHANGED <<scenario, cache, calls, ip, env, yielded, trace>>

\* self.method(...)
CallMethod ==
  /\ scenario.op = "call"
  /\ pc = "ready"
  /\ result' = Invoke(scenario.self, scenario.method)
  /\ pc' = "done"
  /\ UNCHANGED <<scenario, cache, calls, ip, env, yielded, trace>>

\* The two ways of nesting two flatMap calls are evaluated on the same
\* receiver: env holds the chained one, then the nested one.
CallBothNestings ==
  /\ scenario.op = "nesting"
  /\ pc = "ready"
  /\ LET chained == Method(Method(scenario.self, Link("flatMap", scenario.f)).out,
                           Link("flatMap", scenario.g)).out
         nested == Method(scenario.self, Composed(scenario.f, scenario.g)).out
     IN /\ env' = <<chained, nested>>
        /\ result' = chained
  /\ pc' = "done"
  /\ UNCHANGED <<scenario, cache, calls, ip, yielded, trace>>

\* The next method of a chain is called on the container in hand.
ApplyLink ==
  /\ scenario.op = "chain"
  /\ pc = "ready"
  /\ ip <= Len(scenario.links)
  /\ LET r == Method(Last(env), scenario.links[ip])
     IN /\ env' = Append(env, r.out)
        /\ trace' = IF r.called THEN Append(trace, ip) ELSE trace
  /\ ip' = ip + 1
  /\ UNCHANGED <<scenario, cache, calls, pc, yielded, result>>

\* The chain has no more links: its value is the last container.
ChainEnds ==
  /\ scenario.op = "chain"
  /\ pc = "ready"
  /\ ip > Len(scenario.links)
  /\ result' = Last(env)
  /\ pc' = "done"
  /\ UNCHANGED <<scenario, cache, calls, ip, env, yielded, trace>>

\* The next asynchronous method of a chain is called on the container in
\* hand: it starts its callback, or resolves to the container at once.
CallAsyncLink ==
  /\ scenario.op = "asyncChain"
  /\ pc = "ready"
  /\ ip <= Len(scenario.links)
  /\ IF MethodAsync(Last(env), scenario.links[ip]).called
       THEN /\ trace' = Append(trace, ip)
            /\ pc' = "awaiting"
            /\ UNCHANGED <<ip, env>>
       ELSE /\ env' = Append(env, MethodAsync(Last(env), scenario.links[ip]).out)
            /\ ip' = ip + 1
            /\ UNCHANGED <<pc, trace>>
  /\ UNCHANGED <<scenario, cache, calls, yielded, result>>

\* The callback of the method resolves, and with it the promise of the method.
CallbackResolves ==
  /\ scenario.op = "asyncChain"
  /\ pc = "awaiting"
  /\ env' = Append(env, MethodAsync(Last(env), scenario.links[ip]).out)
  /\ ip' = ip + 1
  /\ pc' = "ready"
  /\ UNCHANGED <<scenario, cache, calls, yielded, trace, result>>

\* The chain has no more links: it resolves to the last container.
AsyncChainEnds ==
  /\ scenario.op = "asyncChain"
  /\ pc = "ready"
  /\ ip > Len(scenario.links)
  /\ result' = Last(env)
  /\ pc' = "done"
  /\ UNCHANGED <<scenario, cache, calls, ip, env, yielded, trace>>

\* Mutant: the loop of fetchWithRetry makes one attempt more than maxRetries.
fetchWithRetryIteratesOnceMore ==
  /\ scenario.op = "fetchWithRetry"
  /\ pc = "ready"
  /\ IF ip <= scenario.maxRetries
       THEN /\ trace' = Append(trace, <<"fn", ip>>)
            /\ pc' = "awaiting"
            /\ UNCHANGED result
       ELSE /\ result' = Err(ErrorObj("Error", "Max retries exceeded"))
            /\ pc' = "done"
            /\ UNCHANGED trace
  /\ UNCHANGED <<scenario, cache, calls, ip, env, yielded>>

\* for (let i = 0; i < maxRetries; i++) { const result = await fn(); ... }
\* return Result.Err(new Error("Max retries exceeded")): the loop test, with
\* ip holding i; the trace records the call of fn.
fetchWithRetryIterates ==
  /\ scenario.op = "fetchWithRetry"
  /\ pc = "ready"
  /\ IF ip < scenario.maxRetries
       THEN /\ trace' = Append(trace, <<"fn", ip>>)
            /\ pc' = "awaiting"
            /\ UNCHANGED result
       ELSE /\ result' = Err(ErrorObj("Error", "Max retries exceeded"))
            /\ pc' = "done"
            /\ UNCHANGED trace
  /\ UNCHANGED <<scenario, cache, calls, ip, env, yielded>>

\* Mutant: the delay grows by 100 ms with each attempt.
fnResolvesLinearBackoff ==
  /\ scenario.op = "fetchWithRetry"
  /\ pc = "awaiting"
  /\ \E r \in FnOutcomes :
       /\ env' = Append(env, r)
       /\ IF isOk(r)
            THEN /\ result' = r
                 /\ pc' = "done"
                 /\ UNCHANGED trace
            ELSE /\ trace' = Append(trace, <<"delay", (ip + 1) * 100>>)
                 /\ pc' = "delaying"
                 /\ UNCHANGED result
  /\ UNCHANGED <<scenario, cache, calls, ip, yielded>>

\* fn() resolves to r: if (result.isOk()) return result; otherwise
\* await delay(Math.pow(2, i) * 100) starts.  env keeps what fn resolved to.
fnResolves ==
  /\ scenario.op = "fetchWithRetry"
  /\ pc = "awaiting"
  /\ \E r \in FnOutcomes :
       /\ env' = Append(env, r)
       /\ IF isOk(r)
            THEN /\ result' = r
                 /\ pc' = "done"
                 /\ UNCHANGED trace
            ELSE /\ trace' = Append(trace, <<"delay", Pow(2, ip) * 100>>)
                 /\ pc' = "delaying"
                 /\ UNCHANGED result
  /\ UNCHANGED <<scenario, cache, calls, ip, yielded>>

\* The delay elapses: i++ and the loop goes round.
delayElapses ==
  /\ scenario.op = "fetchWithRetry"
  /\ pc = "delaying"
  /\ ip' = ip + 1
  /\ pc' = "ready"
  /\ UNCHANGED <<scenario, cache, calls, env, yielded, trace, result>>

\* getEmailNotificationSetting(user): the Option returned and the properties
\* the body has yielded.
getEmailNotificationSetting(user) ==
  LET profile == fromNullable(Prop(user, "profile"))
  IN IF Aborts(profile)
       THEN [out |-> Aborted("Option", profile), inspected |-> <<"profile">>]
     ELSE LET settings == fromNullable(Prop(profile.value, "settings"))
     IN IF Aborts(settings)
          THEN [out |-> Aborted("Option", settings), inspected |-> <<"profile", "settings">>]
     ELSE LET notifications == fromNullable(Prop(settings.value, "notifications"))
     IN IF Aborts(notifications)
          THEN [out |-> Aborted("Option", notifications),
                inspected |-> <<"profile", "settings", "notifications">>]
          ELSE [out |-> Completed("Option", Prop(notifications.value, "email")),
                inspected |-> <<"profile", "settings", "notifications">>]

\* Mutant: the last link takes a false setting for a missing one.
getEmailNotificationSettingAltFromFalsy(user) ==
  LET p == fromNullable(Prop(user, "profile"))
      s == Method(p, Link("flatMap", "(p) => Option.fromNullable(p.settings)"))
      n == Method(s.out, Link("flatMap", "(s) => Option.fromNullable(s.notifications)"))
      e == Method(n.out, Link("flatMap", "(n) => Option.Some(n.email)"))
  IN [out |-> IF e.out = Some(<<"boolean", FALSE>>) THEN None ELSE e.out,
      inspected |-> <<"profile">> \o (IF s.called THEN <<"settings">> ELSE <<>>)
                                  \o (IF n.called THEN <<"notifications">> ELSE <<>>)]

\* getEmailNotificationSettingAlt(user): the Option returned and the
\* properties read, the first by the call itself and the others by the
\* callbacks that ran.
getEmailNotificationSettingAlt(user) ==
  LET p == fromNullable(Prop(user, "profile"))
      s == Method(p, Link("flatMap", "(p) => Option.fromNullable(p.settings)"))
      n == Method(s.out, Link("flatMap", "(s) => Option.fromNullable(s.notifications)"))
      e == Method(n.out, Link("flatMap", "(n) => Option.Some(n.email)"))
  IN [out |-> e.out,
      inspected |-> <<"profile">> \o (IF s.called THEN <<"settings">> ELSE <<>>)
                                  \o (IF n.called THEN <<"notifications">> ELSE <<>>)]

\* getEmailNotificationSetting(user) and getEmailNotificationSettingAlt(user)
\* are called on the same user: env holds what the generator form gave, then
\* what the flatMap form gave.
CallBothAccessors ==
  /\ scenario.op = "optionalAccess"
  /\ pc = "ready"
  /\ env' = <<getEmailNotificationSetting(scenario.user),
              getEmailNotificationSettingAlt(scenario.user)>>
  /\ result' = getEmailNotificationSetting(scenario.user).out
  /\ pc' = "done"
  /\ UNCHANGED <<scenario, cache, calls, ip, yielded, trace>>

\* getCachedOrDb(key) runs to `await getFromCache<T>(key)`.
getCachedOrDbStarts ==
  /\ scenario.op = "getCachedOrDb"
  /\ pc = "ready"
  /\ ip = 1
  /\ trace' = Append(trace, <<"getFromCache", scenario.key>>)
  /\ yielded' = Pending
  /\ pc' = "awaiting"
  /\ UNCHANGED <<scenario, cache, calls, ip, env, result>>

\* The awaited promise resolves and the body yields `$(container)`: the
\* Option of getFromCache first, the Result of getFromDatabase second.
getCachedOrDbSettles ==
  /\ scenario.op = "getCachedOrDb"
  /\ pc = "awaiting"
  /\ yielded' = Adapter(IF ip = 1 THEN getFromCache(cache[scenario.key])
                                 ELSE getFromDatabase(scenario.key))
  /\ pc' = "suspended"
  /\ UNCHANGED <<scenario, cache, calls, ip, env, trace, result>>

\* Flow.asyncGenAdapter looks at what was yielded: it hands the payload back
\* (cached, then value) or ends the sequence.
getCachedOrDbInspect ==
  /\ scenario.op = "getCachedOrDb"
  /\ pc = "suspended"
  /\ LET c == Unwrapped(yielded)
     IN IF Aborts(c)
          THEN /\ result' = Aborted("Flow", c)
               /\ pc' = "done"
               /\ UNCHANGED <<ip, env>>
          ELSE /\ env' = Append(env, c.value)
               /\ ip' = ip + 1
               /\ pc' = "ready"
               /\ UNCHANGED result
  /\ yielded' = Nothing
  /\ UNCHANGED <<scenario, cache, calls, trace>>

\* if (cached) { return Result.Ok(cached); } and otherwise the body runs to
\* `await getFromDatabase<T>(key)`.
getCachedOrDbTestsCached ==
  /\ scenario.op = "getCachedOrDb"
  /\ pc = "ready"
  /\ ip = 2
  /\ IF Truthy(env[1])
       THEN /\ result' = Completed("Flow", ReturnValue("Result.Ok(cached)", env))
            /\ pc' = "done"
            /\ UNCHANGED <<yielded, trace>>
       ELSE /\ trace' = Append(trace, <<"getFromDatabase", scenario.key>>)
            /\ yielded' = Pending
            /\ pc' = "awaiting"
            /\ UNCHANGED result
  /\ UNCHANGED <<scenario, cache, calls, ip, env>>

\* cache.set(key, value).catch(() => {}): the Map is updated and returned,
\* and calling its missing catch throws a TypeError inside the body.  What
\* the engine makes of an exception thrown by the body is not documented:
\* the promise of the call rejects, or resolves to an Err of the exception.
getCachedOrDbUpdatesCache ==
  /\ scenario.op = "getCachedOrDb"
  /\ pc = "ready"
  /\ ip = 3
  /\ cache' = [cache EXCEPT ![scenario.key] = env[2]]
  /\ trace' = Append(trace, <<"cache.set", scenario.key>>)
  /\ result' \in {Rejected(CatchIsNotAFunction), Err(CatchIsNotAFunction)}
  /\ pc' = "done"
  /\ UNCHANGED <<scenario, calls, ip, env, yielded>>

\* A call of getProduct(id) that has run to `await cache.get(id)`: got is
\* what cache.get(id) read, writesBefore how many times the cache had been
\* written when the call started, lookups how many times the call has
\* queried the database.
StartedCall(id, got, writesBefore) ==
  [id |-> id, pc |-> "getting", got |-> got, writesBefore |-> writesBefore, lookups |-> 0,
   yielded |-> Nothing, result |-> NotReturned]

\* getProduct(id) is called and its body runs to `await cache.get(id)`.
getProductStarts ==
  /\ scenario.op = "getProduct"
  /\ Len(calls) < MaxCalls
  /\ \E id \in Keys : calls' = Append(calls, StartedCall(id, cache[id], Len(trace)))
  /\ UNCHANGED <<scenario, pc, ip, env, yielded, trace, result, cache>>

\* Mutant: a call that misses while another call is fetching the same id
\* does not query the database itself and returns what the cache holds then.
cacheGetResolvesSingleFlight(k) ==
  /\ scenario.op = "getProduct"
  /\ k \in 1..Len(calls)
  /\ calls[k].pc = "getting"
  /\ LET cached == fromNullable(calls[k].got)
         inFlight == \E j \in 1..Len(calls) :
                       j # k /\ calls[j].id = calls[k].id /\ calls[j].lookups > 0
     IN calls' = [calls EXCEPT ![k] =
          IF isSome(cached)
            THEN [@ EXCEPT !.pc = "done",
                           !.result = Completed("Flow", unwrap(cached).value)]
          ELSE IF inFlight
            THEN [@ EXCEPT !.pc = "done",
                           !.result = Completed("Flow", cache[calls[k].id])]
            ELSE [@ EXCEPT !.pc = "finding", !.lookups = @ + 1]]
  /\ UNCHANGED <<scenario, pc, ip, env, yielded, trace, result, cache>>

\* Mutant: a hit is refreshed: the call queries the database all the same.
cacheGetResolvesAlwaysLooksUp(k) ==
  /\ scenario.op = "getProduct"
  /\ k \in 1..Len(calls)
  /\ calls[k].pc = "getting"
  /\ calls' = [calls EXCEPT ![k] = [@ EXCEPT !.pc = "finding", !.lookups = @ + 1]]
  /\ UNCHANGED <<scenario, pc, ip, env, yielded, trace, result, cache>>

\* `await cache.get(id)` resolves: const cached = Option.fromNullable(...);
\* if (cached.isSome()) return cached.unwrap(); otherwise the body runs to
\* `await db.products.findById(id)`.
cacheGetResolves(k) ==
  /\ scenario.op = "getProduct"
  /\ k \in 1..Len(calls)
  /\ calls[k].pc = "getting"
  /\ LET cached == fromNullable(calls[k].got)
     IN calls' = [calls EXCEPT ![k] =
          IF isSome(cached)
            THEN [@ EXCEPT !.pc = "done",
                           !.result = Completed("Flow", unwrap(cached).value)]
            ELSE [@ EXCEPT !.pc = "finding", !.lookups = @ + 1]]
  /\ UNCHANGED <<scenario, pc, ip, env, yielded, trace, result, cache>>

\* db.products.findById(id) resolves and the body yields `$(its Result)`.
findByIdResolves(k) ==
  /\ scenario.op = "getProduct"
  /\ k \in 1..Len(calls)
  /\ calls[k].pc = "finding"
  /\ \E r \in findById(calls[k].id) :
       calls' = [calls EXCEPT ![k] = [@ EXCEPT !.pc = "suspended", !.yielded = Adapter(r)]]
  /\ UNCHANGED <<scenario, pc, ip, env, yielded, trace, result, cache>>

\* Mutant: a lookup that failed is remembered: the cache entry is overwritten
\* with the error.
getProductInspectCachingFailure(k) ==
  /\ scenario.op = "getProduct"
  /\ k \in 1..Len(calls)
  /\ calls[k].pc = "suspended"
  /\ LET c == Unwrapped(calls[k].yielded)
         id == calls[k].id
     IN IF Aborts(c)
          THEN /\ calls' = [calls EXCEPT ![k] =
                              [@ EXCEPT !.pc = "done", !.yielded = Nothing,
                                        !.result = Aborted("Flow", c)]]
               /\ cache' = [cache EXCEPT ![id] = c.error]
               /\ UNCHANGED trace
          ELSE /\ cache' = [cache EXCEPT ![id] = c.value]
               /\ trace' = Append(trace, <<k, id, c.value>>)
               /\ calls' = [calls EXCEPT ![k] =
                              [@ EXCEPT !.pc = "done", !.yielded = Nothing,
                                        !.result = Completed("Flow", c.value)]]
  /\ UNCHANGED <<scenario, pc, ip, env, yielded, result>>

\* Flow.asyncGenAdapter looks at what was yielded.  An Err ends the sequence;
\* otherwise the body gets the product back, runs cache.set(id, product) and
\* returns the product.  The trace records the writes of the cache.
getProductInspect(k) ==
  /\ scenario.op = "getProduct"
  /\ k \in 1..Len(calls)
  /\ calls[k].pc = "suspended"
  /\ LET c == Unwrapped(calls[k].yielded)
         id == calls[k].id
     IN IF Aborts(c)
          THEN /\ calls' = [calls EXCEPT ![k] =
                              [@ EXCEPT !.pc = "done", !.yielded = Nothing,
                                        !.result = Aborted("Flow", c)]]
               /\ UNCHANGED <<cache, trace>>
          ELSE /\ cache' = [cache EXCEPT ![id] = c.value]
               /\ trace' = Append(trace, <<k, id, c.value>>)
               /\ calls' = [calls EXCEPT ![k] =
                              [@ EXCEPT !.pc = "done", !.yielded = Nothing,
                                        !.result = Completed("Flow", c.value)]]
  /\ UNCHANGED <<scenario, pc, ip, env, yielded, result>>

\* fetchAllUserData starts its fetches together and awaits Promise.all.
FetchAllStarts ==
  /\ scenario.op = "fetchAllUserData"
  /\ pc = "ready"
  /\ env' = [i \in 1..Len(scenario.outcomes) |-> Pending]
  /\ pc' = "awaiting"
  /\ UNCHANGED <<scenario, cache, calls, ip, yielded, trace, result>>

\* One of the fetches resolves; the trace records the order of completion.
FetchSettles(i) ==
  /\ scenario.op = "fetchAllUserData"
  /\ pc = "awaiting"
  /\ env[i] = Pending
  /\ env' = [env EXCEPT ![i] = scenario.outcomes[i]]
  /\ trace' = Append(trace, i)
  /\ UNCHANGED <<scenario, cache, calls, pc, ip, yielded, result>>

\* Promise.all has every result: Result.all(...).map(...) is returned.
FetchAllCombines ==
  /\ scenario.op = "fetchAllUserData"
  /\ pc = "awaiting"
  /\ \A i \in 1..Len(env) : env[i] # Pending
  /\ result' = Method(ResultAll(env), Link("map", "toCompleteData")).out
  /\ pc' = "done"
  /\ UNCHANGED <<scenario, cache, calls, ip, env, yielded, trace>>

\* self.validateAsync(validators) is called: on an Ok every validator is
\* started; an Err is returned as it is.
ValidateAsyncStarts ==
  /\ scenario.op = "validateAsync"
  /\ pc = "ready"
  /\ IF isErr(scenario.self)
       THEN /\ result' = scenario.self
            /\ pc' = "done"
            /\ UNCHANGED env
       ELSE /\ env' = [i \in 1..Len(scenario.outcomes) |-> Pending]
            /\ pc' = "awaiting"
            /\ UNCHANGED result
  /\ UNCHANGED <<scenario, cache, calls, ip, yielded, trace>>

\* One of the validators resolves; the trace records the order of completion.
ValidatorSettles(i) ==
  /\ scenario.op = "validateAsync"
  /\ pc = "awaiting"
  /\ env[i] = Pending
  /\ env' = [env EXCEPT ![i] = scenario.outcomes[i]]
  /\ trace' = Append(trace, i)
  /\ UNCHANGED <<scenario, cache, calls, pc, ip, yielded, result>>

\* Every validator has resolved: the promise of validateAsync resolves.
ValidateAsyncResolves ==
  /\ scenario.op = "validateAsync"
  /\ pc = "awaiting"
  /\ \A i \in 1..Len(env) : env[i] # Pending
  /\ result' = validateAsync(scenario.self, env, trace)
  /\ pc' = "done"
  /\ UNCHANGED <<scenario, cache, calls, ip, env, yielded, trace>>

Scenarios ==
  GenScenarios \cup NestedScenarios \cup ValidateScenarios \cup AggregateScenarios \cup FetchAllScenarios
    \cup ChainScenarios \cup OptionAllScenarios \cup MethodScenarios \cup NestingScenarios
    \cup ValidateAsyncScenarios \cup AsyncChainScenarios \cup RetryScenarios
    \cup CachedOrDbScenarios \cup GetProductScenarios \cup AccessScenarios
    \cup CreateUserScenarios

Init ==
  /\ scenario \in Scenarios
  /\ pc = "ready"
  /\ ip = IF scenario.op = "fetchWithRetry" THEN 0 ELSE 1
  /\ env = IF scenario.op \in {"chain", "asyncChain"} THEN <<scenario.self>> ELSE <<>>
  /\ yielded = Nothing
  /\ trace = <<>>
  /\ result = NotReturned
  /\ cache = CASE scenario.op = "getCachedOrDb" ->
                    [EmptyCache EXCEPT ![scenario.key] = scenario.stored]
               [] scenario.op = "getProduct" -> scenario.stored
               [] OTHER -> EmptyCache
  /\ calls = <<>>

Next ==
  \/ Resume
  \/ Settle
  \/ Inspect
  \/ CallValidate
  \/ CallAll
  \/ CallAny
  \/ CallOptionAll
  \/ CallMethod
  \/ CallBothNestings
  \/ ApplyLink
  \/ ChainEnds
  \/ CallAsyncLink
  \/ CallbackResolves
  \/ AsyncChainEnds
  \/ fetchWithRetryIterates
  \/ fnResolves
  \/ delayElapses
  \/ CallBothAccessors
  \/ getCachedOrDbStarts
  \/ getCachedOrDbSettles
  \/ getCachedOrDbInspect
  \/ getCachedOrDbTestsCached
  \/ getCachedOrDbUpdatesCache
  \/ getProductStarts
  \/ \E k \in 1..Len(calls) : cacheGetResolves(k)
  \/ \E k \in 1..Len(calls) : findByIdResolves(k)
  \/ \E k \in 1..Len(calls) : getProductInspect(k)
  \/ FetchAllStarts
  \/ \E i \in 1..Len(env) : FetchSettles(i)
  \/ FetchAllCombines
  \/ ValidateAsyncStarts
  \/ \E i \in 1..Len(env) : ValidatorSettles(i)
  \/ ValidateAsyncResolves

Spec == Init /\ [][Next]_vars

(***************************************************************************)
(* The asynchronous sequences alone, with awaited computations that may    *)
(* never resolve.  The runtime resumes a generator that can run and hands  *)
(* what it yields to the engine (weak fairness of Resume and Inspect), and *)
(* a computation that resolves at all does so eventually (weak fairness of *)
(* Settle, which a computation that never resolves does not enable).       *)
(***************************************************************************)
AsyncBodies(engine, variant) ==
  {Gen(engine, variant, b, "a + b + c") :
     b \in SeqsUpTo(Statements(engine, variant) \cup {Await(Pending)}, MaxSteps)}

AsyncScenarios ==
  {g \in UNION {AsyncBodies(e, v) : e \in {"Option", "Result", "Flow"},
                                     v \in {"asyncGen", "asyncGenAdapter"}} :
      WellFormed(g.body, g.ret)}

AsyncInit ==
  /\ scenario \in AsyncScenarios
  /\ pc = "ready"
  /\ ip = 1
  /\ env = <<>>
  /\ yielded = Nothing
  /\ trace = <<>>
  /\ result = NotReturned
  /\ cache = EmptyCache
  /\ calls = <<>>

AsyncNext == Resume \/ Settle \/ Inspect

AsyncSpec ==
  AsyncInit /\ [][AsyncNext]_vars /\ WF_vars(Resume) /\ WF_vars(Settle) /\ WF_vars(Inspect)

(***************************************************************************)
(* fetchWithRetry alone.  Every call of fn resolves and every delay         *)
(* elapses (weak fairness of fnResolves and delayElapses), and the function *)
(* runs when it can (weak fairness of fetchWithRetryIterates).              *)
(***************************************************************************)
RetryInit ==
  /\ scenario \in RetryScenarios
  /\ pc = "ready"
  /\ ip = 0
  /\ env = <<>>
  /\ yielded = Nothing
  /\ trace = <<>>
  /\ result = NotReturned
  /\ cache = EmptyCache
  /\ calls = <<>>

RetryNext == fetchWithRetryIterates \/ fnResolves \/ delayElapses

RetrySpec ==
  /\ RetryInit
  /\ [][RetryNext]_vars
  /\ WF_vars(fetchWithRetryIterates)
  /\ WF_vars(fnResolves)
  /\ WF_vars(delayElapses)

(***************************************************************************)
(* Properties of the sequencing engines.                                   *)
(***************************************************************************)
Running(engines) == scenario.op = "gen" /\ scenario.engine \in engines

\* The statement that ran as the m-th side effect of the body.
Ran(m) == scenario.body[trace[m]]

\* A statement that ran and stops the sequence: a yield of None or Err, or
\* a raise (a raise appears in the trace only when its condition held).
Failing(st) ==
  IF st.op = "raiseIf" THEN TRUE
  ELSE IF st.op = "const" THEN FALSE
  ELSE st.c.tag \in {"None", "Err"}

\* The indices of the statements of the body that yield, in source order.
YieldIndices == SelectSeq([i \in 1..Len(scenario.body) |-> i],
                          LAMBDA i : scenario.body[i].op # "raiseIf")

\* The payloads of those statements, in source order.
Payloads ==
  [k \in 1..Len(YieldIndices) |->
     LET st == scenario.body[YieldIndices[k]]
     IN IF st.op = "const" THEN Obj(st.c) ELSE st.c.value]

\* C1: in an Option or Result sequence the first yielded None or Err ends
\* the sequence: it is the last statement that ever runs, and the result is
\* None (Option) or that very Err (Result); [Some(1), None, Some(3)] runs
\* exactly two statements and returns None.
C1_SingleKindShortCircuit ==
  Running({"Option", "Result"}) =>
    /\ \A m \in 1..Len(trace) :
         Failing(Ran(m)) =>
           /\ m = Len(trace)
           /\ pc \in {"awaiting", "suspended", "done"}
           /\ pc = "done" =>
                result = IF scenario.engine = "Option" THEN None ELSE Ran(m).c
    /\ ( /\ scenario.engine = "Option"
         /\ scenario.body = <<Yield(Some(Num(1))), Yield(None), Yield(Some(Num(3)))>>
         /\ pc = "done" ) => (Len(trace) = 2 /\ result = None)

C1_Witness ==
  /\ Running({"Option"})
  /\ scenario.variant = "gen"
  /\ scenario.body = <<Yield(Some(Num(1))), Yield(None), Yield(Some(Num(3)))>>
  /\ pc = "done"
  /\ trace = <<1, 2>>
  /\ result = None

\* The Err a Flow sequence returns when the statement st stops it.
FlowFailure(st) ==
  IF st.op = "raiseIf" THEN Err(st.error)
  ELSE IF st.c.tag = "None" THEN Err(UnwrappedNone)
  ELSE Err(st.c.error)

\* C2: in a Flow sequence the first failing statement is the last statement
\* that runs, and the result is Err(UnwrappedNone) for a yielded None, the
\* same Err(e) for a yielded Err(e), and Err(error) for a raised FlowError.
C2_FlowShortCircuit ==
  Running({"Flow"}) =>
    \A m \in 1..Len(trace) :
      Failing(Ran(m)) =>
        /\ m = Len(trace)
        /\ pc \in {"awaiting", "suspended", "done"}
        /\ pc = "done" => result = FlowFailure(Ran(m))

C2_Witness ==
  /\ Running({"Flow"})
  /\ scenario.variant = "asyncGenAdapter"
  /\ Len(scenario.body) = 3
  /\ pc = "done"
  /\ trace = <<1, 2>>
  /\ Ran(2) = Await(None)
  /\ result = Err(UnwrappedNone)

\* C3: a Flow sequence none of whose statements fails runs every yield once
\* in source order and returns Ok of exactly the value its return expression
\* produces (a returned container stays a container inside Ok); and a Flow
\* sequence that returns Ok ran no failing statement.
C3_FlowCompletes ==
  (Running({"Flow"}) /\ pc = "done") =>
    /\ (\A m \in 1..Len(trace) : ~Failing(Ran(m))) =>
         /\ trace = YieldIndices
         /\ result = Ok(ReturnValue(scenario.ret, Payloads))
         /\ scenario.ret = "Result.Ok(cached)" =>
              result = Ok(Obj(Ok(Payloads[Len(Payloads)])))
    /\ isOk(result) => \A m \in 1..Len(trace) : ~Failing(Ran(m))

C3_Witness ==
  /\ Running({"Flow"})
  /\ scenario.body = <<Yield(Some(Num(1))), Yield(Ok(Num(10))), Yield(Some(Num(0)))>>
  /\ scenario.ret = "Result.Ok(cached)"
  /\ pc = "done"
  /\ trace = <<1, 2, 3>>
  /\ result = Ok(Obj(Ok(Num(0))))

\* C4: a FlowError raised under a condition ends the sequence with
\* Err(thatError) and nothing after it runs: withCustomError returns
\* Err(ValidationError) iff its value is negative and Ok(value * 2)
\* otherwise, and of two consecutive conditional raises only the first whose
\* condition holds is reported.
C4_ConditionalRaise ==
  (Running({"Flow"}) /\ pc = "done") =>
    /\ \A v \in {-5, 0, 1} :
         (scenario.body = withCustomError(v) /\ scenario.ret = "value * 2") =>
           /\ v < 0 => (result = Err(ValidationError("Value must be positive"))
                          /\ trace = <<1, 2>>)
           /\ v >= 0 => (result = Ok(Num(v * 2)) /\ trace = <<1>>)
    /\ \A age \in Ages, email \in Emails :
         scenario.body = multiStepValidation(Ok(Input(age, email))) =>
           /\ age < 18 =>
                (result = Err(ValidationError("Must be 18 or older")) /\ trace = <<1, 2>>)
           /\ (age >= 18 /\ includes(email, "+")) =>
                (result = Err(ValidationError("Email aliases not allowed")) /\ trace = <<1, 3>>)
           /\ (age >= 18 /\ ~includes(email, "+")) =>
                (result = Ok(Input(age, email)) /\ trace = <<1>>)

C4_Witness ==
  /\ Running({"Flow"})
  /\ scenario.body = multiStepValidation(Ok(Input(17, <<"a", "+", "c", "@", "b">>)))
  /\ pc = "done"
  /\ trace = <<1, 2>>
  /\ result = Err(ValidationError("Must be 18 or older"))

(***************************************************************************)
(* Properties of the Result combinators.                                   *)
(***************************************************************************)
Called(o) == scenario.op = o /\ pc = "done"

Indices(n) == [i \in 1..n |-> i]

\* The errors of the validators of vs that fail on x, in validator order.
FailuresOf(vs, x) ==
  LET failed == SelectSeq(vs, LAMBDA name : isErr(Validator(name, x)))
  IN [k \in 1..Len(failed) |-> Validator(failed[k], x).error]

C6_DocumentedOutcomeFor101 ==
  (Called("validate") /\ scenario.validators = Validators /\ scenario.self = Ok(Num(101))) =>
    result = Err(Arr(<<Str("must be < 100")>>))

\* C7: Err(e).validate(vs) returns Err(e) with e itself, not a list, and
\* invokes no validator.
C7_ValidateOnErr ==
  (Called("validate") /\ isErr(scenario.self)) =>
    /\ result = scenario.self
    /\ ~IsArr(result.error)
    /\ trace = <<>>

C7_Witness ==
  /\ Called("validate")
  /\ scenario.validators = Validators
  /\ scenario.self = Err(Str("init"))
  /\ result = Err(Str("init"))
  /\ trace = <<>>

\* Result.all as the claim states it: Ok of every value when no input is
\* Err, otherwise Err of the errors of the Err inputs by input position.
AllOf(rs) ==
  LET errs == SelectSeq(rs, isErr)
  IN IF errs = <<>> THEN Ok(Arr([i \in 1..Len(rs) |-> rs[i].value]))
     ELSE Err(Arr([k \in 1..Len(errs) |-> errs[k].error]))

\* C8: Result.all returns Ok([v1..vn]) iff every input is Ok and otherwise
\* Err of every error in input position order, Ok([]) for no input; in
\* fetchAllUserData the result depends on the position of each fetch only,
\* whatever the order in which the fetches completed.
C8_AllCollectsByPosition ==
  /\ Called("all") =>
       /\ result = AllOf(scenario.args)
       /\ isOk(result) <=> \A i \in 1..Len(scenario.args) : isOk(scenario.args[i])
       /\ scenario.args = <<>> => result = Ok(Arr(<<>>))
  /\ Called("fetchAllUserData") =>
       LET expected == AllOf(scenario.outcomes)
       IN result = IF isOk(expected)
                     THEN Ok(Obj([user |-> Str("user"), posts |-> Str("posts"),
                                  likes |-> Str("likes")]))
                     ELSE expected

C8_Witness ==
  /\ Called("fetchAllUserData")
  /\ trace = <<3, 2, 1>>
  /\ isErr(scenario.outcomes[1])
  /\ isOk(scenario.outcomes[2])
  /\ isErr(scenario.outcomes[3])
  /\ result = Err(Arr(<<ErrorObj("Error", "no user"), ErrorObj("Error", "no likes")>>))

\* C9: map, flatMap, zip and flatZip called on an Err (or a None) return it
\* unchanged without invoking their callback; so
\* Ok(1).flatMap(_ => Err("a")).flatMap(_ => Err("b")) is Err("a") and only
\* the first callback runs.
C9_FailureAbsorbs ==
  scenario.op = "chain" =>
    /\ \A i \in 1..(Len(env) - 1) :
         ( /\ env[i].tag \in {"Err", "None"}
           /\ scenario.links[i].method \in {"map", "flatMap", "zip", "flatZip"} ) =>
           /\ env[i + 1] = env[i]
           /\ \A m \in 1..Len(trace) : trace[m] # i
    /\ ( /\ pc = "done"
         /\ scenario.self = Ok(Num(1))
         /\ scenario.links = <<Link("flatMap", "Result.Err('a')"),
                               Link("flatMap", "Result.Err('b')")>> ) =>
         (result = Err(Str("a")) /\ trace = <<1>>)

C9_Witness ==
  /\ Called("chain")
  /\ scenario.self = Ok(Num(1))
  /\ scenario.links = <<Link("flatMap", "Result.Err('a')"), Link("flatMap", "Result.Err('b')")>>
  /\ env = <<Ok(Num(1)), Err(Str("a")), Err(Str("a"))>>
  /\ trace = <<1>>
  /\ result = Err(Str("a"))

\* C10: Result.any returns the first Ok in input order, whatever follows
\* it, and Err of every input's error in input order when no input is Ok.
C10_AnyFirstOk ==
  Called("any") =>
    /\ \A k \in 1..Len(scenario.args) :
         (isOk(scenario.args[k]) /\ \A j \in 1..(k - 1) : isErr(scenario.args[j])) =>
           result = scenario.args[k]
    /\ (\A k \in 1..Len(scenario.args) : isErr(scenario.args[k])) =>
         result = Err(Arr([k \in 1..Len(scenario.args) |-> scenario.args[k].error]))

C10_Witness ==
  /\ Called("any")
  /\ scenario.args = <<Err(Str("a")), Ok(Num(1)), Ok(Num(2))>>
  /\ result = Ok(Num(1))

(***************************************************************************)
(* Properties of Option.all, zipErr, orElse and the unwrap family.         *)
(***************************************************************************)
\* C11: Option.all returns Some of every value in input order iff every input
\* is Some, and None otherwise; what follows the first None in input order
\* has no effect on the result; Option.all() is Some([]).
C11_OptionAll ==
  Called("Option.all") =>
    LET os == scenario.args
        nones == {i \in 1..Len(os) : isNone(os[i])}
    IN /\ nones = {} <=> isSome(result)
       /\ nones = {} => result = Some(Arr([i \in 1..Len(os) |-> os[i].value]))
       /\ nones # {} =>
            LET first == CHOOSE i \in nones : \A j \in nones : i <= j
            IN /\ result = None
               /\ result = OptionAll(SubSeq(os, 1, first))
       /\ os = <<>> => result = Some(Arr(<<>>))

C11_Witness ==
  /\ Called("Option.all")
  /\ scenario.args = <<Some(Num(1)), None, Some(Num(3))>>
  /\ result = None

\* How many times the callback of link i was invoked.
TimesCalled(i) == Cardinality({m \in 1..Len(trace) : trace[m] = i})

\* C12: Ok(v).zipErr(f) invokes f(v) once and returns f's Err when f(v) is an
\* Err and the receiver Ok(v) itself otherwise, whatever Ok f returned;
\* Err(e).zipErr(f) returns Err(e) and f is not invoked.
C12_ZipErr ==
  scenario.op = "chain" =>
    /\ \A i \in 1..(Len(env) - 1) :
         scenario.links[i].method = "zipErr" =>
           /\ isOk(env[i]) =>
                LET r == Call(scenario.links[i].fn, env[i].value)
                IN /\ TimesCalled(i) = 1
                   /\ env[i + 1] = IF isErr(r) THEN r ELSE env[i]
           /\ isErr(env[i]) => (TimesCalled(i) = 0 /\ env[i + 1] = env[i])
    /\ ( /\ pc = "done"
         /\ scenario.links =
              <<Link("zipErr", "id === 'guest' ? Result.Err(...) : Result.Ok(undefined)")>> ) =>
         /\ scenario.self = Ok(Str("admin-123")) => result = Ok(Str("admin-123"))
         /\ scenario.self = Ok(Str("guest")) =>
              result = Err(Str("Guest users have limited access"))
         /\ scenario.self = Err(Str("Network error")) => result = Err(Str("Network error"))

C12_Witness ==
  /\ Called("chain")
  /\ scenario.self = Ok(Str("admin-123"))
  /\ scenario.links =
       <<Link("zipErr", "id === 'guest' ? Result.Err(...) : Result.Ok(undefined)")>>
  /\ trace = <<1>>
  /\ result = Ok(Str("admin-123"))

\* C13: Ok(v).orElse(f) returns Ok(v) and f is not invoked; Err(e).orElse(f)
\* returns f(e) itself; so in a chain of orElse links the fallbacks run in
\* order while the value in hand is an Err, none runs after the first Ok,
\* and the chain returns that first Ok or, without one, the last fallback's
\* Err.
C13_OrElse ==
  scenario.op = "chain" =>
    /\ \A i \in 1..(Len(env) - 1) :
         scenario.links[i].method = "orElse" =>
           /\ isOk(env[i]) => (TimesCalled(i) = 0 /\ env[i + 1] = env[i])
           /\ isErr(env[i]) =>
                (TimesCalled(i) = 1 /\ env[i + 1] = Call(scenario.links[i].fn, env[i].error))
    /\ ( /\ pc = "done"
         /\ isErr(scenario.self)
         /\ scenario.links # <<>>
         /\ \A i \in 1..Len(scenario.links) : scenario.links[i].method = "orElse" ) =>
         LET n == Len(scenario.links)
             oks == {i \in 1..n : isOk(Call(scenario.links[i].fn, scenario.self.error))}
             stop == IF oks = {} THEN n ELSE CHOOSE i \in oks : \A j \in oks : i <= j
         IN /\ trace = Indices(stop)
            /\ result = Call(scenario.links[stop].fn, scenario.self.error)

C13_Witness ==
  /\ Called("chain")
  /\ scenario.self = Err(Str("initial"))
  /\ scenario.links = <<Link("orElse", "Result.Err('backup failed')"),
                        Link("orElse", "Result.Ok(0)")>>
  /\ trace = <<1, 2>>
  /\ result = Ok(Num(0))

\* C14: unwrap and unwrapErr fail exactly when the variant they assert does
\* not hold: None.unwrap() throws UnwrappedNone, Ok(v).unwrapErr() throws
\* UnwrappedErrWithOk, Err(e).unwrap() throws e itself when e is an Error and
\* otherwise UnwrappedOkWithErr carrying e; Some(v).unwrap(), Ok(v).unwrap()
\* and Err(e).unwrapErr() return the payload.
C14_UnwrapFamily ==
  (Called("call") /\ scenario.method \in {"unwrap", "unwrapErr"}) =>
    LET self == scenario.self
        m == scenario.method
    IN /\ result.tag = "Thrown" <=>
            \/ m = "unwrap" /\ self.tag \in {"None", "Err"}
            \/ m = "unwrapErr" /\ isOk(self)
       /\ (m = "unwrap" /\ isNone(self)) => result.error = ErrorObj("UnwrappedNone", "")
       /\ (m = "unwrapErr" /\ isOk(self)) => result.error[2] = "UnwrappedErrWithOk"
       /\ (m = "unwrap" /\ isErr(self)) =>
            IF self.error[1] = "error"
              THEN result.error = self.error
              ELSE result.error[2] = "UnwrappedOkWithErr" /\ result.error[3] = self.error
       /\ (m = "unwrap" /\ self.tag \in {"Some", "Ok"}) => result = Returned(self.value)
       /\ (m = "unwrapErr" /\ isErr(self)) => result = Returned(self.error)

C14_Witness ==
  /\ Called("call")
  /\ scenario.method = "unwrap"
  /\ scenario.self = Err(ErrorObj("Error", "fail"))
  /\ result = Thrown(ErrorObj("Error", "fail"))

\* C15: no call other than unwrap() and unwrapErr() throws: every other
\* operation returns a container or a plain value for either variant of its
\* receiver, and the three unwrap errors are thrown by unwrap() and
\* unwrapErr() only.
C15_OnlyUnwrapThrows ==
  pc = "done" =>
    /\ result.tag \in {"Some", "None", "Ok", "Err", "Returned", "Thrown", "Rejected"}
    /\ result.tag = "Rejected" =>
         (scenario.op = "getCachedOrDb" /\ result.error = CatchIsNotAFunction)
    /\ result.tag = "Thrown" =>
         /\ scenario.op = "call"
         /\ scenario.method \in {"unwrap", "unwrapErr"}
         /\ \/ result.error[2] \in {"UnwrappedNone", "UnwrappedOkWithErr", "UnwrappedErrWithOk"}
            \/ result.error = scenario.self.error
    /\ (scenario.op = "call" /\ scenario.method \notin {"unwrap", "unwrapErr"}) =>
         IF scenario.method \in {"unwrapOr", "unwrapOrElse", "safeUnwrap", "mapOr", "match", "fold"}
           THEN result.tag = "Returned"
           ELSE result.tag \in {"Some", "None", "Ok", "Err"}

C15_Witness ==
  /\ Called("call")
  /\ scenario.method = "safeUnwrap"
  /\ scenario.self = Err(Str("fail"))
  /\ result = Returned(Null)

\* C16: flatMap is associative on Option and on Result: for every receiver
\* and every pair of binders f and g, failing ones included,
\* (c.flatMap(f)).flatMap(g) equals c.flatMap(x => f(x).flatMap(g)).
C16_FlatMapAssociative ==
  Called("nesting") =>
    /\ env[1] = env[2]
    /\ env[1].tag \in (IF scenario.self.tag \in {"Some", "None"} THEN {"Some", "None"}
                                                                  ELSE {"Ok", "Err"})

C16_Witness ==
  /\ Called("nesting")
  /\ scenario.self = Ok(Num(1))
  /\ scenario.f = "Result.Ok(x + 1)"
  /\ scenario.g = "Result.Err('b')"
  /\ env = <<Err(Str("b")), Err(Str("b"))>>

(***************************************************************************)
(* Properties of the asynchronous sequences.                               *)
(***************************************************************************)
\* The statements started so far that yield a container, in starting order.
Started == SelectSeq(trace, LAMBDA i : scenario.body[i].op # "raiseIf")

\* C17: an asynchronous sequence is advanced one step at a time: statements
\* start in source order, a statement (the call it awaits included) starts
\* only when every statement before it has resolved and handed its payload
\* back to the body, and no statement starts after a failing one; in
\* fetchCompleteUserData getProfile is not called when getUser yields Err,
\* nor getSettings when getProfile yields Err.
C17_AsyncInOrder ==
  (scenario.op = "gen" /\ IsAsync(scenario.variant)) =>
    /\ \A m \in 1..(Len(trace) - 1) : trace[m] < trace[m + 1] /\ ~Failing(Ran(m))
    /\ Len(Started) \in {Len(env), Len(env) + 1}
    /\ Len(Started) = Len(env) + 1 => pc \in {"awaiting", "suspended", "done"}
    /\ \A k \in 1..Len(env) : env[k] = scenario.body[Started[k]].c.value
    /\ \A o \in UserDataOutcomes :
         scenario.body = fetchCompleteUserData(o) =>
           /\ isErr(o[1]) => \A m \in 1..Len(trace) : trace[m] \notin {2, 3}
           /\ isErr(o[2]) => \A m \in 1..Len(trace) : trace[m] # 3

C17_Witness ==
  /\ Running({"Flow"})
  /\ scenario.variant = "asyncGenAdapter"
  /\ scenario.ret = "{ user, profile, settings }"
  /\ isOk(scenario.body[1].c)
  /\ isErr(scenario.body[2].c)
  /\ pc = "done"
  /\ trace = <<1, 2>>
  /\ env = <<Str("user")>>
  /\ result = Err(ErrorObj("Error", "no profile"))

\* C18: Ok(v).validateAsync(validators) resolves to what running the
\* validators one after the other in input order gives: every validator
\* runs, the errors are listed in validator order whatever the order in
\* which the validators completed, and the result is Ok(v) iff none failed.
C18_ValidateAsyncByPosition ==
  (Called("validateAsync") /\ isOk(scenario.self)) =>
    LET o == scenario.outcomes
        failed == SelectSeq(o, isErr)
    IN /\ Len(trace) = Len(o)
       /\ \A i \in 1..Len(o) : \E m \in 1..Len(trace) : trace[m] = i
       /\ result = IF failed = <<>> THEN scenario.self
                   ELSE Err(Arr([k \in 1..Len(failed) |-> failed[k].error]))
       /\ result = scenario.self <=> \A i \in 1..Len(o) : isOk(o[i])

C18_Witness ==
  /\ Called("validateAsync")
  /\ scenario.self = Ok(Str("input"))
  /\ scenario.outcomes = <<Err(Str("Email already registered")), Ok(<<"boolean", TRUE>>),
                           Err(Str("Password found in data breaches"))>>
  /\ trace = <<3, 2, 1>>
  /\ result = Err(Arr(<<Str("Email already registered"),
                        Str("Password found in data breaches")>>))

\* The sequence is suspended on a computation that never resolves.
Stalled == scenario.op = "gen" /\ pc = "awaiting" /\ scenario.body[ip].c.tag = "Pending"

\* C19: there is no timeout and no cancellation: a sequence suspended on a
\* computation that never resolves has no result and nothing about it ever
\* changes again, so no later statement runs; and a sequence whose awaited
\* computations all resolve eventually returns.
C19_NoTimeout ==
  /\ [](Stalled => result = NotReturned)
  /\ [][Stalled => UNCHANGED vars]_vars
  /\ <>(pc = "done" \/ Stalled)
  /\ (\A i \in 1..Len(scenario.body) : scenario.body[i] # Await(Pending)) => <>(pc = "done")

C19_Witness ==
  /\ Stalled
  /\ scenario.engine = "Flow"
  /\ Len(scenario.body) = 3
  /\ ip = 2
  /\ trace = <<1, 2>>
  /\ env = <<Num(1)>>
  /\ result = NotReturned

\* The containers an engine returns.
ContainersOf(engine) == IF engine = "Option" THEN {"Some", "None"} ELSE {"Ok", "Err"}

\* C20: the signal that ends a sequence stays inside the engine: every call
\* of gen, genAdapter, asyncGen or asyncGenAdapter that ends has returned a
\* container of its kind (None or Err when the sequence was ended early) and
\* nothing yielded is left pending; a sequence called inside a body returns
\* a container too, and ends the enclosing sequence only when the body
\* yields that container and it is None or Err.
C20_AbortStaysInside ==
  (scenario.op = "gen" /\ pc = "done") =>
    /\ result.tag \in ContainersOf(scenario.engine)
    /\ yielded = Nothing
    /\ (trace # <<>> /\ Failing(Ran(Len(trace)))) => result.tag \in {"None", "Err"}
    /\ (scenario.body # <<>> /\ "inner" \in DOMAIN scenario.body[1]) =>
         LET st == scenario.body[1]
             r == st.c
         IN /\ r.tag \in ContainersOf(st.inner.engine)
            /\ (st.op = "const" \/ r.tag \in {"Some", "Ok"}) =>
                 (Len(trace) = 2 /\ trace[2] = 2)
            /\ st.op = "const" => env[1] = Obj(r)
            /\ (st.op = "yield" /\ r.tag \in {"None", "Err"}) =>
                 /\ trace = <<1>>
                 /\ result = CASE scenario.engine = "Option" -> None
                               [] scenario.engine = "Result" -> r
                               [] scenario.engine = "Flow"   ->
                                    IF isNone(r) THEN Err(UnwrappedNone) ELSE r

C20_Witness ==
  /\ Running({"Flow"})
  /\ pc = "done"
  /\ scenario.body = <<ConstGen("Option", <<Yield(Some(Num(1))), Yield(None)>>),
                       Yield(Ok(Num(10)))>>
  /\ trace = <<1, 2>>
  /\ result = Ok(Obj(None))

(***************************************************************************)
(* Properties that relate two ways of writing the same computation.        *)
(***************************************************************************)
\* What a body does when its statements are taken one after the other with
\* no adapter between the body and the engine: the statements that run, in
\* order, and the container returned.
RECURSIVE Outcome(_, _, _, _, _, _)
Outcome(engine, body, ret, i, vals, ran) ==
  IF i > Len(body)
    THEN [trace |-> ran, result |-> Completed(engine, ReturnValue(ret, vals))]
  ELSE LET st == body[i]
       IN IF st.op = "raiseIf"
            THEN IF Test(st.cond, vals)
                   THEN [trace |-> Append(ran, i),
                         result |-> Aborted(engine, FlowError(st.error))]
                   ELSE Outcome(engine, body, ret, i + 1, vals, ran)
          ELSE IF st.op = "const"
            THEN Outcome(engine, body, ret, i + 1, Append(vals, Obj(st.c)), Append(ran, i))
          ELSE IF Aborts(st.c)
            THEN [trace |-> Append(ran, i), result |-> Aborted(engine, st.c)]
          ELSE Outcome(engine, body, ret, i + 1, Append(vals, st.c.value), Append(ran, i))

\* C21: the direct and the adapter disciplines behave alike: whatever the
\* variant, a sequence runs the statements and returns the Result (variant
\* and payload or error) that its list of steps determines, so gen and
\* genAdapter, and asyncGen and asyncGenAdapter, agree on every body; what
\* the engine reads from a yield through $ is the container itself.
C21_AdapterEquivalent ==
  scenario.op = "gen" =>
    /\ \A e \in {"Option", "Result", "Flow"} :
         /\ Statements(e, "gen") = Statements(e, "genAdapter")
         /\ Statements(e, "asyncGen") = Statements(e, "asyncGenAdapter")
    /\ pc = "suspended" =>
         /\ (IsAdapter(scenario.variant) /\ scenario.body[ip].op # "raiseIf") =>
              (yielded.tag = "Wrapped" /\ yielded.inner = scenario.body[ip].c)
         /\ (~IsAdapter(scenario.variant) /\ scenario.body[ip].op # "raiseIf") =>
              yielded = scenario.body[ip].c
    /\ pc = "done" =>
         [trace |-> trace, result |-> result]
           = Outcome(scenario.engine, scenario.body, scenario.ret, 1, <<>>, <<>>)

C21_Witness ==
  /\ Running({"Flow"})
  /\ scenario.variant = "asyncGenAdapter"
  /\ scenario.body = <<Yield(Some(Num(1))), Await(Err(Str("something failed"))),
                       Await(Ok(Num(10)))>>
  /\ pc = "done"
  /\ trace = <<1, 2>>
  /\ result = Err(Str("something failed"))

\* The synchronous method an asynchronous one is the counterpart of, called
\* on c with the same callback.
SyncCounterpart(c, link) ==
  CASE link.method = "mapAsync"     -> Method(c, Link("map", link.fn))
    [] link.method = "flatMapAsync" -> Method(c, Link("flatMap", link.fn))
    [] link.method = "zipAsync"     -> Method(c, Link("zip", link.fn))
    [] link.method = "flatZipAsync" -> Method(c, Link("flatZip", link.fn))
    [] link.method = "orElseAsync"  -> orElse(c, link.fn)
    [] link.method = "filterAsync"  -> [called |-> isSome(c), out |-> filter(c)]
    [] link.method = "mapErrAsync"  -> [called |-> isErr(c), out |-> mapErr(c)]

\* C22: every asynchronous method resolves to the container its synchronous
\* counterpart returns for the same receiver and callback, and starts its
\* callback exactly when the counterpart would call it (never on None or Err
\* for the methods of the success channel); the callbacks of a chain start in
\* link order, one at a time; and in a chain of flatMapAsync links no
\* callback starts after the first None or Err.
C22_AsyncAsSync ==
  scenario.op = "asyncChain" =>
    /\ \A i \in 1..(Len(env) - 1) :
         LET sync == SyncCounterpart(env[i], scenario.links[i])
         IN /\ env[i + 1] = sync.out
            /\ TimesCalled(i) = IF sync.called THEN 1 ELSE 0
            /\ ( /\ env[i].tag \in {"None", "Err"}
                 /\ scenario.links[i].method \notin {"mapErrAsync", "orElseAsync"} ) =>
                 (TimesCalled(i) = 0 /\ env[i + 1] = env[i])
    /\ \A m \in 1..(Len(trace) - 1) : trace[m] < trace[m + 1]
    /\ \A m \in 1..Len(trace) : trace[m] <= Len(env)
    /\ pc = "awaiting" => (Len(env) = ip /\ trace # <<>> /\ Last(trace) = ip)
    /\ (\A i \in 1..Len(scenario.links) : scenario.links[i].method = "flatMapAsync") =>
         \A i \in 1..Len(env) :
           env[i].tag \in {"None", "Err"} => \A m \in 1..Len(trace) : trace[m] < i
    /\ pc = "done" => (Len(env) = Len(scenario.links) + 1 /\ result = Last(env))

C22_Witness ==
  /\ Called("asyncChain")
  /\ scenario.self = Ok(Num(42))
  /\ scenario.links = <<Link("flatMapAsync", "Result.Err('a')"),
                        Link("flatMapAsync", "Result.Ok(x + 1)")>>
  /\ env = <<Ok(Num(42)), Err(Str("a")), Err(Str("a"))>>
  /\ trace = <<1>>
  /\ result = Err(Str("a"))

(***************************************************************************)
(* Properties of fetchWithRetry.                                           *)
(***************************************************************************)
\* The calls of fn and the delays so far, in order.
FnCalls == SelectSeq(trace, LAMBDA e : e[1] = "fn")

Delays == SelectSeq(trace, LAMBDA e : e[1] = "delay")

MaxRetriesExceeded == Err(ErrorObj("Error", "Max retries exceeded"))

\* C23: fetchWithRetry calls fn one attempt at a time, at most maxRetries
\* times (never for maxRetries <= 0); it returns the first Ok and does not
\* call fn after it; when every attempt gave Err it returns
\* Err("Max retries exceeded"), none of fn's errors; and when every call of
\* fn resolves it returns.
C23_RetryBounded ==
  /\ [](LET n == IF scenario.maxRetries > 0 THEN scenario.maxRetries ELSE 0
        IN /\ Len(FnCalls) <= n
           /\ \A k \in 1..Len(FnCalls) : FnCalls[k] = <<"fn", k - 1>>
           /\ Len(FnCalls) = Len(env) + (IF pc = "awaiting" THEN 1 ELSE 0)
           /\ \A k \in 1..Len(env) : isOk(env[k]) => (k = Len(env) /\ pc = "done")
           /\ pc = "done" =>
                IF env # <<>> /\ isOk(Last(env))
                  THEN result = Last(env)
                  ELSE /\ Len(env) = n
                       /\ result = MaxRetriesExceeded
                       /\ \A k \in 1..Len(env) : result # env[k]
           /\ pc # "done" => result = NotReturned)
  /\ <>(pc = "done")

C23_Witness ==
  /\ Called("fetchWithRetry")
  /\ scenario.maxRetries = 3
  /\ env = <<Err(ErrorObj("Error", "API error")), Err(ErrorObj("Error", "Network error")),
             Err(ErrorObj("Error", "API error"))>>
  /\ FnCalls = <<<<"fn", 0>>, <<"fn", 1>>, <<"fn", 2>>>>
  /\ result = MaxRetriesExceeded

\* C24: after the failed attempt of index i fetchWithRetry delays 2^i * 100
\* ms, so 100, 200, 400 for maxRetries = 3; each delay is twice the one
\* before; and there is no delay after an attempt that succeeded.
C24_ExponentialBackoff ==
  scenario.op = "fetchWithRetry" =>
    /\ \A k \in 1..Len(Delays) : Delays[k] = <<"delay", (2 ^ (k - 1)) * 100>>
    /\ \A k \in 1..(Len(Delays) - 1) : Delays[k + 1][2] = 2 * Delays[k][2]
    /\ Len(Delays) = Len(SelectSeq(env, isErr))
    /\ \A m \in 1..Len(trace) :
         trace[m][1] = "delay" =>
           /\ m > 1
           /\ trace[m - 1][1] = "fn"
           /\ isErr(env[trace[m - 1][2] + 1])
    /\ (trace # <<>> /\ env # <<>> /\ isOk(Last(env))) => Last(trace)[1] = "fn"
    /\ (pc = "done" /\ scenario.maxRetries = 3 /\ result = MaxRetriesExceeded) =>
         Delays = <<<<"delay", 100>>, <<"delay", 200>>, <<"delay", 400>>>>

C24_Witness ==
  /\ Called("fetchWithRetry")
  /\ scenario.maxRetries = 3
  /\ Delays = <<<<"delay", 100>>, <<"delay", 200>>, <<"delay", 400>>>>
  /\ result = MaxRetriesExceeded

(***************************************************************************)
(* Properties of the cache-aside examples.                                 *)
(***************************************************************************)
\* Whether the call fetched from the database.
FetchedFromDatabase == \E m \in 1..Len(trace) : trace[m][1] = "getFromDatabase"

\* C25: in getCachedOrDb(key) a cache miss (the key is absent, getFromCache
\* gives None) goes on to fetch the value from the database and returns it,
\* and a cache hit returns the cached value without a database fetch.
C25_MissFallsBackToDatabase ==
  Called("getCachedOrDb") =>
    IF isNone(getFromCache(scenario.stored))
      THEN FetchedFromDatabase /\ result = Ok(fetchFromDb(scenario.key))
      ELSE ~FetchedFromDatabase /\ result \in {Ok(scenario.stored), Ok(Obj(Ok(scenario.stored)))}

\* Whether what cache.get read is an entry.
Hit(call) == isSome(fromNullable(call.got))

\* The writes of the cache under id among the first n, in order.
WritesOf(id, n) == SelectSeq(SubSeq(trace, 1, n), LAMBDA w : w[2] = id)

\* C26: a call of getProduct(id) that finds id in the cache returns Ok of the
\* cached product and never queries the database; a call that misses queries
\* the database once and, on Ok(product), writes the product under id and
\* returns Ok(product); so a call of getProduct(id) that starts after such a
\* write is served the written product from the cache, with no lookup.
C26_CacheAside ==
  scenario.op = "getProduct" =>
    \A k \in 1..Len(calls) :
      LET call == calls[k]
          earlier == WritesOf(call.id, call.writesBefore)
      IN /\ Hit(call) =>
              /\ call.lookups = 0
              /\ call.pc \in {"getting", "done"}
              /\ call.pc = "done" => call.result = Ok(call.got)
         /\ ~Hit(call) =>
              /\ call.lookups = IF call.pc = "getting" THEN 0 ELSE 1
              /\ (call.pc = "done" /\ isOk(call.result)) =>
                   /\ \E m \in 1..Len(trace) : trace[m] = <<k, call.id, call.result.value>>
                   /\ isSome(fromNullable(cache[call.id]))
         /\ earlier # <<>> =>
              /\ Hit(call)
              /\ call.got = Last(earlier)[3]
              /\ call.lookups = 0

C26_Witness ==
  /\ scenario.op = "getProduct"
  /\ scenario.stored = EmptyCache
  /\ Len(calls) = 2
  /\ calls[1].id = "a" /\ calls[2].id = "a"
  /\ calls[1].lookups = 1
  /\ calls[1].result = Ok(Product("a", "repriced"))
  /\ trace = <<<<1, "a", Product("a", "repriced")>>>>
  /\ calls[2].writesBefore = 1
  /\ calls[2].lookups = 0
  /\ calls[2].pc = "done"
  /\ calls[2].result = Ok(Product("a", "repriced"))

(***************************************************************************)
(* Properties of the example programs.                                     *)
(***************************************************************************)
\* The properties of the path profile.settings.notifications that hold an
\* object, from the user down to the first that is missing or nullish.
RECURSIVE Reachable(_, _)
Reachable(o, path) ==
  IF path = <<>> \/ isNone(fromNullable(Prop(o, path[1]))) THEN <<>>
  ELSE <<path[1]>> \o Reachable(Prop(o, path[1]), Tail(path))

RECURSIVE Follow(_, _)
Follow(o, path) == IF path = <<>> THEN o ELSE Follow(Prop(o, path[1]), Tail(path))

\* C27: for every user the generator form and the flatMap form of the nested
\* optional access return the same Option and read the same properties:
\* Some(notifications.email) when profile, settings and notifications are
\* all there, and None at the first of them that is missing or nullish, with
\* nothing read beyond it.
C27_AccessorsAgree ==
  Called("optionalAccess") =>
    LET path == <<"profile", "settings", "notifications">>
        there == Reachable(scenario.user, path)
    IN /\ env[1] = env[2]
       /\ env[1].out = IF Len(there) = 3 THEN Some(Prop(Follow(scenario.user, path), "email"))
                                          ELSE None
       /\ env[1].inspected = SubSeq(path, 1, IF Len(there) = 3 THEN 3 ELSE Len(there) + 1)

C27_Witness ==
  /\ Called("optionalAccess")
  /\ scenario.user = Obj([profile |-> Obj([settings |-> Null])])
  /\ env[1] = [out |-> None, inspected |-> <<"profile", "settings">>]
  /\ env[2] = [out |-> None, inspected |-> <<"profile", "settings">>]

\* The runs of createUser.
IsCreateUser == scenario.op = "gen" /\ scenario.ret = "{ email, age }"

\* C28: createUser never returns Ok({ email, age }).  Whatever the input
\* and whatever the lookup finds, the run ends in Err: the error of the first
\* validation that fails, else Err(UnwrappedNone) when no user exists (the
\* None of fromNullable(null) ends the flow), else
\* Err(ValidationError("User already exists")); the body never gets to its
\* final return.
C28_CreateUserNeverOk ==
  IsCreateUser =>
    LET input == scenario.body[1].c.value
        found == scenario.body[4].c
    IN /\ result.tag # "Ok"
       /\ ~(pc = "ready" /\ ip > Len(scenario.body))
       /\ pc = "done" =>
            result = IF ~matchesEmailFormat(input[2].email)
                       THEN Err(ErrorObj("Error", "Invalid email format"))
                     ELSE IF input[2].age < 18
                       THEN Err(ErrorObj("Error", "Must be 18 or older"))
                     ELSE IF isNone(found) THEN Err(UnwrappedNone)
                     ELSE Err(ValidationError("User already exists"))

C28_Witness ==
  /\ IsCreateUser
  /\ pc = "done"
  /\ scenario.body[1].c.value = Input(18, <<"a", "@", "b", ".", "c">>)
  /\ scenario.body[4].c = None
  /\ trace = <<1, 2, 3, 4>>
  /\ result = Err(UnwrappedNone)

\* The calls of getProduct(id) whose cache.get(id) read a miss.
Missed(id) == {k \in 1..Len(calls) : calls[k].id = id /\ ~Hit(calls[k])}

\* What the cache holds under id after the writes recorded so far.
LastWritten(id) ==
  IF WritesOf(id, Len(trace)) = <<>> THEN scenario.stored[id]
  ELSE Last(WritesOf(id, Len(trace)))[3]

\* C29: getProduct(id) has no single-flight guard.  Every call that read a
\* miss queries the database itself, whatever the other calls are doing, so
\* the lookups for an id number as many as the calls that missed on it and
\* have got past the cache; each of them that gets Ok(product) writes the
\* cache, and the cache holds what the last of these writes stored.
C29_NoSingleFlight ==
  scenario.op = "getProduct" =>
    \A id \in Keys :
      /\ \A k \in Missed(id) : calls[k].lookups = IF calls[k].pc = "getting" THEN 0 ELSE 1
      /\ \A k \in Missed(id) :
           (calls[k].pc = "done" /\ isOk(calls[k].result)) =>
             Len(SelectSeq(trace, LAMBDA w : w = <<k, id, calls[k].result.value>>)) = 1
      /\ Len(WritesOf(id, Len(trace)))
           = Cardinality({k \in Missed(id) : calls[k].pc = "done" /\ isOk(calls[k].result)})
      /\ cache[id] = LastWritten(id)

C29_Witness ==
  /\ scenario.op = "getProduct"
  /\ scenario.stored = EmptyCache
  /\ Len(calls) = 2
  /\ calls[1].id = "a" /\ calls[2].id = "a"
  /\ calls[1].got = Undefined /\ calls[2].got = Undefined
  /\ calls[1].lookups = 1 /\ calls[2].lookups = 1
  /\ trace = << <<2, "a", Product("a", "repriced")>>, <<1, "a", Product("a", "listed")>> >>
  /\ calls[2].result = Ok(Product("a", "repriced"))
  /\ cache["a"] = Product("a", "listed")

\* C30: when a call of getProduct(id) has missed and its lookup yields
\* Err(e), the flow ends there with Err(e): the step writes nothing, and the
\* cache is the same after it as before; so the cache only ever holds what
\* it held at the start or what a successful lookup wrote.
C30_FailedLookupLeavesCache ==
  /\ [][\A k \in 1..Len(calls) :
          (/\ scenario.op = "getProduct"
           /\ calls[k].pc = "suspended"
           /\ isErr(Unwrapped(calls[k].yielded))
           /\ calls'[k].pc = "done")
            => /\ calls'[k].result = Unwrapped(calls[k].yielded)
               /\ cache' = cache
               /\ trace' = trace]_vars
  /\ [](scenario.op = "getProduct" =>
          /\ \A id \in Keys : cache[id] = LastWritten(id)
          /\ \A k \in 1..Len(calls) :
               (calls[k].pc = "done" /\ isErr(calls[k].result)) =>
                 /\ calls[k].lookups = 1
                 /\ \A m \in 1..Len(trace) : trace[m][1] # k)

C30_Witness ==
  /\ scenario.op = "getProduct"
  /\ scenario.stored = EmptyCache
  /\ Len(calls) = 2
  /\ calls[1].id = "a" /\ calls[2].id = "a"
  /\ calls[2].writesBefore = 0
  /\ calls[2].pc = "done"
  /\ calls[2].result = Err(ErrorObj("Error", "db unavailable"))
  /\ trace = << <<1, "a", Product("a", "listed")>> >>
  /\ cache = [EmptyCache EXCEPT !["a"] = Product("a", "listed")]

=============================================================================
